---- MODULE Spec2Model ----
(***************************************************************************)
(* The reveal / reroll sequencing of the DBD perk roulette: PerkDisplay,   *)
(* KillerDisplay, FullDisplay, FullSurvivorDisplay and SurvivorDisplay.    *)
(*                                                                         *)
(* Every QTimer is a boolean (active or not) with its counter; a timeout   *)
(* of an active timer is one action that runs the whole connected slot.    *)
(* Qt gives no order between the timeouts of different timers, so any      *)
(* active timer may fire next.  A click is one action running the whole    *)
(* connected handler.  random.choice / random.sample are choices with \E.  *)
(* File names and labels are sequences of one-character strings, so that   *)
(* format_perk_name, os.path.splitext and str.replace compute what the     *)
(* code computes.  An exception that leaves a slot reaches main.excepthook,*)
(* which exits the process: crashed.                                       *)
(*                                                                         *)
(* Per slot the model keeps the label text the code sets and `pick`, the   *)
(* file name the label was made from (the final PickRecord of the slot,    *)
(* NoFile once the label is cleared).  `ev` records what the last handler  *)
(* finalized; both are observations, not program fields.                   *)
(***************************************************************************)
EXTENDS Integers, Sequences, FiniteSets, TLC

\* ------------------------------------------------------------------ bounds
\* SPIN_STEPS is 20 in every source file; the model runs the same guards
\* against a scaled-down value (every threshold is written with SPIN_STEPS).
SPIN_STEPS == 2
\* The number of user clicks in one run of the application.
MaxClicks == 2
\* The number of clicks in the longer runs of SpecFSDeep.
MaxDeepClicks == 3

\* ----------------------------------------------------------------- strings
NoFile == <<>>
EmptyText == <<>>

UpperChars ==
  {"A","B","C","D","E","F","G","H","I","J","K","L","M",
   "N","O","P","Q","R","S","T","U","V","W","X","Y","Z"}

\* str.upper() on one character
upper_char(c) ==
  CASE c = "a" -> "A" [] c = "b" -> "B" [] c = "c" -> "C" [] c = "d" -> "D"
    [] c = "e" -> "E" [] c = "f" -> "F" [] c = "g" -> "G" [] c = "h" -> "H"
    [] c = "i" -> "I" [] c = "j" -> "J" [] c = "k" -> "K" [] c = "l" -> "L"
    [] c = "m" -> "M" [] c = "n" -> "N" [] c = "o" -> "O" [] c = "p" -> "P"
    [] c = "q" -> "Q" [] c = "r" -> "R" [] c = "s" -> "S" [] c = "t" -> "T"
    [] c = "u" -> "U" [] c = "v" -> "V" [] c = "w" -> "W" [] c = "x" -> "X"
    [] c = "y" -> "Y" [] c = "z" -> "Z" [] OTHER -> c

\* str.lower() on one character
lower_char(c) ==
  CASE c = "A" -> "a" [] c = "B" -> "b" [] c = "C" -> "c" [] c = "D" -> "d"
    [] c = "E" -> "e" [] c = "F" -> "f" [] c = "G" -> "g" [] c = "H" -> "h"
    [] c = "I" -> "i" [] c = "J" -> "j" [] c = "K" -> "k" [] c = "L" -> "l"
    [] c = "M" -> "m" [] c = "N" -> "n" [] c = "O" -> "o" [] c = "P" -> "p"
    [] c = "Q" -> "q" [] c = "R" -> "r" [] c = "S" -> "s" [] c = "T" -> "t"
    [] c = "U" -> "u" [] c = "V" -> "v" [] c = "W" -> "w" [] c = "X" -> "x"
    [] c = "Y" -> "y" [] c = "Z" -> "z" [] OTHER -> c

upper(s) == [i \in 1..Len(s) |-> upper_char(s[i])]
lower(s) == [i \in 1..Len(s) |-> lower_char(s[i])]

endswith(s, suf) ==
  /\ Len(s) >= Len(suf)
  /\ SubSeq(s, Len(s) - Len(suf) + 1, Len(s)) = suf

startswith(s, pre) ==
  /\ Len(s) >= Len(pre)
  /\ SubSeq(s, 1, Len(pre)) = pre

\* f.lower().endswith(".png")
is_png(f) == endswith(lower(f), <<".","p","n","g">>)

\* os.path.splitext(name)[0] for a name without a directory part: the
\* extension starts at the last dot unless only dots precede it.
splitext_stem(name) ==
  LET dots == {i \in 1..Len(name) : name[i] = "."}
      last == IF dots = {} THEN 0
              ELSE CHOOSE i \in dots : \A j \in dots : j <= i
  IN  IF last = 0 \/ (\A j \in 1..(last - 1) : name[j] = ".")
        THEN name
        ELSE SubSeq(name, 1, last - 1)

RECURSIVE replace_char(_, _, _)
\* str.replace(old, new) for a one-character `old`; `new` is a sequence
replace_char(s, old, new) ==
  IF s = <<>> THEN <<>>
  ELSE (IF Head(s) = old THEN new ELSE <<Head(s)>>)
       \o replace_char(Tail(s), old, new)

RECURSIVE space_before_upper(_, _)
\* re.sub(r'(?<!^)(?=[A-Z])', ' ', name): a space before every upper-case
\* letter that is not the first character; i is the position in s.
space_before_upper(s, i) ==
  IF i > Len(s) THEN <<>>
  ELSE (IF i > 1 /\ s[i] \in UpperChars THEN <<" ", s[i]>> ELSE <<s[i]>>)
       \o space_before_upper(s, i + 1)

\* each step's result is bound as a value before the next step reads it
format_perk_name(filename) ==
  CHOOSE label \in
    { upper(spaced) :
        spaced \in { space_before_upper(name, 1) :
          name \in { replace_char(stem, "_", <<" ">>) :
            stem \in { splitext_stem(filename) } } } } : TRUE

\* text.replace(" ", "")
strip_spaces(s) == replace_char(s, " ", <<>>)

\* ------------------------------------------------------------- file system
\* The images/ tree is not part of the source.  The model runs the code on
\* three trees: "full" (four perks; every survivor item has its add-on
\* folder), "few" (three perks; the item Map has no add-on folder) and
\* "none" (no perk image besides the placeholder; items as in "few").
VARIABLE assets

AssetTrees == {"full", "few", "none"}

\* images/killer_perks (PerkDisplay of the killer menus and of FullDisplay)
\* and images/survivor_perks (FullSurvivorDisplay): four perks and the
\* placeholder image.
PerkFolderListing ==
  CASE assets = "full" ->
         { <<"p",".","p","n","g">>, <<"q",".","p","n","g">>,
           <<"r",".","p","n","g">>, <<"s",".","p","n","g">>,
           <<"h","e","l","p","L","o","a","d","i","n","g","K","i","l","l","e","r",".","p","n","g">> }
    [] assets = "few" ->
         { <<"p",".","p","n","g">>, <<"q",".","p","n","g">>,
           <<"r",".","p","n","g">>,
           <<"h","e","l","p","L","o","a","d","i","n","g","K","i","l","l","e","r",".","p","n","g">> }
    [] OTHER ->
         { <<"h","e","l","p","L","o","a","d","i","n","g","K","i","l","l","e","r",".","p","n","g">> }

\* images/killers
KillerDirListing ==
  { <<"H","a","g",".","p","n","g">>,
    <<"T","h","e","O","n","i",".","p","n","g">>,
    <<"P","i","g",".","p","n","g">>,
    <<"n",".","t","x","t">> }

\* images/killer_addons: its sub-directories, by name.  PIG has none.
KillerAddonDirs == { <<"H","A","G">>, <<"T","H","E","O","N","I">> }

KillerAddonListing(dir) ==
  CASE dir = <<"H","A","G">> ->
         { <<"a",".","p","n","g">>, <<"b",".","p","n","g">> }
    [] dir = <<"T","H","E","O","N","I">> ->
         { <<"d",".","p","n","g">>, <<"n",".","t","x","t">> }
    [] dir = <<>> -> KillerAddonDirs    \* the root itself lists its sub-directories
    [] OTHER -> {}

\* images/survivors
SurvivorDirListing ==
  { <<"M","e","g",".","p","n","g">>, <<"A","c","e",".","p","n","g">> }

\* images/survivor_items: the item images and the addons directory
SurvivorItemListing ==
  IF assets = "full"
    THEN { <<"M","e","d",".","p","n","g">>, <<"K","e","y",".","p","n","g">>,
           <<"a","d","d","o","n","s">> }
    ELSE { <<"M","e","d",".","p","n","g">>, <<"M","a","p",".","p","n","g">>,
           <<"a","d","d","o","n","s">> }

\* images/survivor_items/addons: its sub-directories, by name
SurvivorAddonDirs == { <<"M","e","d">>, <<"K","e","y">> }

SurvivorAddonListing(dir) ==
  CASE dir = <<"M","e","d">> ->
         { <<"x",".","p","n","g">>, <<"y",".","p","n","g">> }
    [] dir = <<"K","e","y">> -> { <<"k",".","p","n","g">> }
    [] OTHER -> {}

\* k draws with replacement (random.choices, or random.choice k times)
RECURSIVE choices(_, _)
choices(files, k) ==
  IF k = 0 THEN { <<>> }
  ELSE UNION { { <<f>> \o rest : rest \in choices(files, k - 1) } : f \in files }

\* random.sample(files, k): the k-tuples of pairwise different members
RECURSIVE sample(_, _)
sample(files, k) ==
  IF k = 0 THEN { <<>> }
  ELSE UNION { { <<f>> \o rest : rest \in sample(files \ {f}, k - 1) } : f \in files }

Min(a, b) == IF a <= b THEN a ELSE b

\* what an animation tick puts on the two add-on icons, one random.choice(files)
\* for each icon: one pair for every set of files the two icons can show
icon_draws(files) ==
  { CHOOSE q \in choices(files, 2) : {q[1], q[2]} = shown :
      shown \in { t \in SUBSET files : Cardinality(t) \in 1..2 } }

\* ---------------------------------------------------------------- state
VARIABLES
  fmt,       \* one call of utils.format_perk_name: its argument and its result
  view,      \* the display the main window shows
  pd,        \* PerkDisplay
  kd,        \* KillerDisplay
  fd,        \* FullDisplay (owns a kd and a pd)
  fs,        \* FullSurvivorDisplay (owns a pd)
  sd,        \* SurvivorDisplay
  ev,        \* what the last handler finalized
  crashed,   \* main.excepthook ran: the process has exited
  clicks     \* the clicks the user still makes

vars == <<assets, fmt, view, pd, kd, fd, fs, sd, ev, crashed, clicks>>

Views == {"PerkDisplay", "KillerDisplay", "FullDisplay",
          "FullSurvivorDisplay", "SurvivorDisplay"}

NoEv == [kind |-> "none", idx |-> 0, stale |-> FALSE, picks |-> <<>>]
Event(kind, idx, stale, picks) ==
  [kind |-> kind, idx |-> idx, stale |-> stale, picks |-> picks]
Raised(kind) == Event(kind, 0, FALSE, <<>>)

\* ------------------------------------------------------------ utils
\* The longest file stem format_perk_name is called on.
MaxStemLen == 4

\* the characters of the stems: a lower-case letter, two upper-case letters,
\* the underscore
StemChars == {"e", "D", "N", "_"}

RECURSIVE Stems(_)
Stems(n) ==
  IF n = 0 THEN { <<>> }
  ELSE Stems(n - 1)
       \cup { s \o <<c>> : s \in { t \in Stems(n - 1) : Len(t) = n - 1 }, c \in StemChars }

\* the file names format_perk_name is called on
LabelInputs ==
  { s \o <<".","p","n","g">> : s \in Stems(MaxStemLen) \ { <<>> } }
  \cup { <<"D","e","a","d","H","a","r","d",".","p","n","g">>,
         <<"d","e","a","d","_","h","a","r","d",".","p","n","g">>,
         <<"N","O","E","D",".","p","n","g">> }

NoCall == [filename |-> NoFile, label |-> EmptyText, returned |-> FALSE]

\* PerkDisplay.__init__: perk_files, labels, the two timers
perk_files ==
  { f \in PerkFolderListing :
      ~startswith(f, <<"h","e","l","p","L","o","a","d","i","n","g">>) }

PerkSlots == 1..4

PD_init ==
  [ spin_counter   |-> 0,
    timer          |-> FALSE,
    single_idx     |-> 0,
    single_counter |-> 0,
    single_timer   |-> FALSE,
    txt            |-> [i \in PerkSlots |-> EmptyText],
    pick           |-> [i \in PerkSlots |-> NoFile],
    stale          |-> FALSE,
    nstart         |-> 0,
    nreveal        |-> 0 ]

\* counting up to 2: none, once, more than once
Bump(n) == IF n < 2 THEN n + 1 ELSE 2

\* The owner of a PerkDisplay starts a new run: nstart and nreveal count the
\* perk spins started and the perk finalizations of the current run.
PD_new_run(p) == [p EXCEPT !.nstart = 0, !.nreveal = 0]

\* PerkDisplay._start_spin
PD_start_spin(p) ==
  [p EXCEPT !.spin_counter = 0, !.timer = TRUE, !.stale = FALSE,
            !.nstart = Bump(p.nstart)]

\* PerkDisplay._reveal_perks, with picks = random.sample(perk_files, 4)
PD_reveal_perks(p, picks) ==
  [p EXCEPT !.txt  = [i \in PerkSlots |-> format_perk_name(picks[i])],
            !.pick = [i \in PerkSlots |-> picks[i]],
            !.nreveal = Bump(p.nreveal)]

\* PerkDisplay._reroll_perk(idx), with fname = random.choice(perk_files)
PD_reroll_perk(p, idx, fname) ==
  [p EXCEPT !.txt[idx] = format_perk_name(fname), !.pick[idx] = fname]

\* PerkDisplay._start_perk_spin(idx)
PD_start_perk_spin(p, idx) ==
  [p EXCEPT !.single_idx = idx, !.single_counter = 0, !.single_timer = TRUE]

Live == ~crashed
CanClick == Live /\ clicks > 0

\* the Spin button of a stand-alone PerkDisplay (hidden in the full displays)
PerkSpinClick ==
  /\ CanClick /\ view = "PerkDisplay"
  /\ pd' = PD_start_spin(PD_new_run(pd))
  /\ ev' = Event("start", 0, FALSE, <<>>)
  /\ clicks' = clicks - 1
  /\ UNCHANGED <<assets, fmt, view, kd, fd, fs, sd, crashed>>

\* a perk icon of PerkDisplay; FullDisplay reconnects the icons to its own handler
PerkIconClick ==
  /\ CanClick /\ view \in {"PerkDisplay", "FullSurvivorDisplay"}
  /\ \E idx \in PerkSlots : pd' = PD_start_perk_spin(pd, idx)
  /\ ev' = NoEv
  /\ clicks' = clicks - 1
  /\ UNCHANGED <<assets, fmt, view, kd, fd, fs, sd, crashed>>

\* PerkDisplay._animate_spin: one timeout of pd._timer
PD_animate_spin ==
  /\ Live /\ pd.timer
  /\ LET c == pd.spin_counter + 1 IN
     IF perk_files = {}
       THEN \* random.choice of an empty list raises IndexError
            /\ pd' = [pd EXCEPT !.spin_counter = c]
            /\ crashed' = TRUE
            /\ ev' = Raised("raise_animate_spin")
     ELSE IF c > SPIN_STEPS
       THEN IF Cardinality(perk_files) < 4
              THEN \* random.sample larger than the population raises ValueError
                   /\ pd' = [pd EXCEPT !.spin_counter = c, !.timer = FALSE]
                   /\ crashed' = TRUE
                   /\ ev' = Raised("raise_reveal_perks")
              ELSE \E picks \in sample(perk_files, 4) :
                   /\ pd' = PD_reveal_perks(
                              [pd EXCEPT !.spin_counter = c, !.timer = FALSE], picks)
                   /\ crashed' = FALSE
                   /\ ev' = Event("reveal_perks", 0, pd.stale, picks)
       ELSE /\ pd' = [pd EXCEPT !.spin_counter = c]
            /\ crashed' = FALSE
            /\ ev' = NoEv
  /\ UNCHANGED <<assets, fmt, view, kd, fd, fs, sd, clicks>>

\* PerkDisplay._animate_single: one timeout of pd._single_timer
PD_animate_single ==
  /\ Live /\ pd.single_timer
  /\ LET c == pd.single_counter + 1
         i == pd.single_idx IN
     IF perk_files = {}
       THEN /\ pd' = [pd EXCEPT !.single_counter = c]
            /\ crashed' = TRUE
            /\ ev' = Raised("raise_animate_single")
     ELSE IF c > SPIN_STEPS
       THEN \E fname \in perk_files :
            /\ pd' = PD_reroll_perk(
                       [pd EXCEPT !.single_counter = c, !.single_timer = FALSE],
                       i, fname)
            /\ crashed' = FALSE
            /\ ev' = Event("reroll_perk", i, FALSE, <<fname>>)
       ELSE /\ pd' = [pd EXCEPT !.single_counter = c]
            /\ crashed' = FALSE
            /\ ev' = NoEv
  /\ UNCHANGED <<assets, fmt, view, kd, fd, fs, sd, clicks>>

\* ---------------------------------------------------------- KillerDisplay
\* KillerDisplay.__init__: killer_files
killer_files == { f \in KillerDirListing : is_png(f) }

AddonSlots == 1..2

\* os.path.isdir(os.path.join(self.addons_root, key)); joining the empty key
\* gives the root directory itself
killer_addon_isdir(key) == key = <<>> \/ key \in KillerAddonDirs

\* [f for f in os.listdir(folder) if f.lower().endswith(".png")]
killer_addon_files(key) == { f \in KillerAddonListing(key) : is_png(f) }

\* the list all_addons that _animate_addons builds from every sub-directory
all_killer_addons ==
  UNION { { <<sub, fn>> : fn \in killer_addon_files(sub) } : sub \in KillerAddonDirs }

\* the pixmap of an add-on icon: the placeholder, or <<sub-directory, file>>
Placeholder == <<>>

KD_init ==
  [ name_label              |-> EmptyText,
    name_pick               |-> NoFile,
    addon_txt               |-> [i \in AddonSlots |-> EmptyText],
    addon_pick              |-> [i \in AddonSlots |-> NoFile],
    addon_files             |-> <<NoFile, NoFile>>,
    addon_icon              |-> [i \in AddonSlots |-> Placeholder],
    portrait_counter        |-> 0,
    addon_counter           |-> 0,
    portrait_timer          |-> FALSE,
    addon_timer             |-> FALSE,
    single_addon_counter    |-> 0,
    single_addon_idx        |-> 0,
    single_addon_timer      |-> FALSE,
    single_portrait_counter |-> 0,
    single_portrait_timer   |-> FALSE,
    addon_src               |-> "none",
    addon_stale             |-> FALSE ]

\* KillerDisplay._start_portrait.  An add-on timer that a full spin started and
\* that is still running now belongs to a superseded run (addon_stale).
KD_start_portrait(k) ==
  [k EXCEPT !.portrait_counter = 0,
            !.name_label       = EmptyText,
            !.name_pick        = NoFile,
            !.addon_txt        = [i \in AddonSlots |-> EmptyText],
            !.addon_pick       = [i \in AddonSlots |-> NoFile],
            !.addon_icon       = [i \in AddonSlots |-> Placeholder],
            !.portrait_timer   = TRUE,
            !.addon_stale      = (k.addon_timer /\ (k.addon_src = "full" \/ k.addon_stale))]

\* KillerDisplay._start_addons; src names the caller (full spin or single portrait)
KD_start_addons(k, src) ==
  [k EXCEPT !.addon_counter = 0, !.addon_timer = TRUE,
            !.addon_src = src, !.addon_stale = FALSE]

\* the key _reveal_addons, _animate_single_addon and _reroll_addon look up
KD_key(k) == strip_spaces(k.name_label)

\* KillerDisplay._reveal_addons past the isdir test, with
\* picks = random.sample(files, min(2, len(files)))
KD_reveal_addons(k, picks) ==
  [k EXCEPT !.addon_files = picks,
            !.addon_txt   = [i \in AddonSlots |->
                               IF i <= Len(picks) THEN format_perk_name(picks[i])
                               ELSE k.addon_txt[i]],
            !.addon_pick  = [i \in AddonSlots |->
                               IF i <= Len(picks) THEN picks[i] ELSE k.addon_pick[i]],
            !.addon_icon  = [i \in AddonSlots |->
                               IF i <= Len(picks) THEN <<KD_key(k), picks[i]>>
                               ELSE k.addon_icon[i]]]

\* the number of picks _reveal_addons asks random.sample for
reveal_count(files) == Min(2, Cardinality(files))

\* KillerDisplay._start_single_addon(idx)
KD_start_single_addon(k, idx) ==
  IF k.name_label = EmptyText THEN k
  ELSE [k EXCEPT !.single_addon_idx = idx, !.single_addon_counter = 0,
                 !.single_addon_timer = TRUE]

\* KillerDisplay._start_single_portrait
KD_start_single_portrait(k) ==
  [k EXCEPT !.single_portrait_counter = 0, !.single_portrait_timer = TRUE]

\* a reroll that draws from every file of the folder, the other slot's pick included
KD_reroll_pool_all(k, idx) == killer_addon_files(KD_key(k))

\* KillerDisplay._reroll_addon(idx): pool = [f for f in files if f != other] or files
KD_reroll_pool(k, idx) ==
  LET files == killer_addon_files(KD_key(k))
      other == k.addon_files[3 - idx]
      rest  == { f \in files : f # other }
  IN  IF rest # {} THEN rest ELSE files

\* _reroll_addon raises IndexError: _addon_files[1-idx] or _addon_files[idx] out
\* of range, or random.choice of an empty pool
KD_reroll_addon_raises(k, idx) ==
  \/ Len(k.addon_files) < 3 - idx
  \/ Len(k.addon_files) < idx
  \/ KD_reroll_pool(k, idx) = {}

\* a reroll that writes the pick into both add-on slots, as a cascade would
KD_reroll_addon_both(k, idx, fn) ==
  [k EXCEPT !.addon_files = <<fn, fn>>,
            !.addon_txt   = [i \in AddonSlots |-> format_perk_name(fn)],
            !.addon_pick  = [i \in AddonSlots |-> fn],
            !.addon_icon  = [i \in AddonSlots |-> <<KD_key(k), fn>>]]

\* KillerDisplay._reroll_addon(idx) past the isdir test, with fn = random.choice(pool)
KD_reroll_addon(k, idx, fn) ==
  [k EXCEPT !.addon_files[idx] = fn,
            !.addon_txt[idx]   = format_perk_name(fn),
            !.addon_pick[idx]  = fn,
            !.addon_icon[idx]  = <<KD_key(k), fn>>]

\* the Spin button of a stand-alone KillerDisplay; in FullDisplay the portrait
\* icon is connected to the same handler
KillerSpinClick ==
  /\ CanClick /\ view \in {"KillerDisplay", "FullDisplay"}
  /\ kd' = KD_start_portrait(kd)
  /\ ev' = Event("start_portrait", 0, FALSE, <<>>)
  /\ clicks' = clicks - 1
  /\ UNCHANGED <<assets, fmt, view, pd, fd, fs, sd, crashed>>

\* the portrait icon of a stand-alone KillerDisplay
KillerPortraitClick ==
  /\ CanClick /\ view = "KillerDisplay"
  /\ kd' = KD_start_single_portrait(kd)
  /\ ev' = NoEv
  /\ clicks' = clicks - 1
  /\ UNCHANGED <<assets, fmt, view, pd, fd, fs, sd, crashed>>

\* an add-on icon of a stand-alone KillerDisplay
KillerAddonClick ==
  /\ CanClick /\ view = "KillerDisplay"
  /\ \E idx \in AddonSlots : kd' = KD_start_single_addon(kd, idx)
  /\ ev' = NoEv
  /\ clicks' = clicks - 1
  /\ UNCHANGED <<assets, fmt, view, pd, fd, fs, sd, crashed>>

\* KillerDisplay._animate_portrait: one timeout of portrait_timer
KD_animate_portrait ==
  /\ Live /\ kd.portrait_timer
  /\ LET c == kd.portrait_counter + 1 IN
     IF killer_files = {}
       THEN /\ kd' = [kd EXCEPT !.portrait_counter = c]
            /\ crashed' = TRUE
            /\ ev' = Raised("raise_animate_portrait")
     ELSE \E pick \in killer_files :
          /\ crashed' = FALSE
          /\ IF c > SPIN_STEPS
               THEN /\ kd' = KD_start_addons(
                               [kd EXCEPT !.portrait_counter = c,
                                          !.portrait_timer   = FALSE,
                                          !.name_label       = format_perk_name(pick),
                                          !.name_pick        = pick], "full")
                    /\ ev' = Event("final_portrait", 0, FALSE, <<pick>>)
               ELSE /\ kd' = [kd EXCEPT !.portrait_counter = c]
                    /\ ev' = NoEv
  /\ UNCHANGED <<assets, fmt, view, pd, fd, fs, sd, clicks>>

\* KillerDisplay._animate_single_portrait: one timeout of _single_portrait_timer
KD_animate_single_portrait ==
  /\ Live /\ kd.single_portrait_timer
  /\ LET c == kd.single_portrait_counter + 1 IN
     IF killer_files = {}
       THEN /\ kd' = [kd EXCEPT !.single_portrait_counter = c]
            /\ crashed' = TRUE
            /\ ev' = Raised("raise_animate_single_portrait")
     ELSE \E pick \in killer_files :
          /\ crashed' = FALSE
          /\ IF c > SPIN_STEPS
               THEN /\ kd' = KD_start_addons(
                               [kd EXCEPT !.single_portrait_counter = c,
                                          !.single_portrait_timer   = FALSE,
                                          !.name_label = format_perk_name(pick),
                                          !.name_pick  = pick], "single")
                    /\ ev' = Event("final_single_portrait", 0, FALSE, <<pick>>)
               ELSE /\ kd' = [kd EXCEPT !.single_portrait_counter = c]
                    /\ ev' = NoEv
  /\ UNCHANGED <<assets, fmt, view, pd, fd, fs, sd, clicks>>

\* KillerDisplay._animate_addons: one timeout of addon_timer
\* the icons the last timeout of addon_timer draws, one random.choice(all_addons)
\* per slot, before it calls _reveal_addons; a slot among the first n is redrawn
\* by _reveal_addons in the same call, and its draw is left out
last_draws(n) ==
  { <<i1, i2>> : i1 \in (IF n >= 1 THEN {Placeholder} ELSE all_killer_addons),
                 i2 \in (IF n >= 2 THEN {Placeholder} ELSE all_killer_addons) }

KD_animate_addons ==
  /\ Live /\ kd.addon_timer
  /\ LET c     == kd.addon_counter + 1
         key   == KD_key(kd)
         files == killer_addon_files(key)
         tick  == [kd EXCEPT !.addon_counter = c]
         kind  == IF kd.addon_src = "single" THEN "cascade_addons" ELSE "reveal_addons"
         nodir == IF kd.addon_src = "single" THEN "cascade_nodir" ELSE "reveal_nodir"
     IN
     IF all_killer_addons = {}
       THEN /\ kd' = tick
            /\ crashed' = TRUE
            /\ ev' = Raised("raise_animate_addons")
     ELSE /\ crashed' = FALSE
          /\ IF c > SPIN_STEPS
               THEN IF ~killer_addon_isdir(key)
                      THEN \E drawn \in last_draws(0) :
                           /\ kd' = [tick EXCEPT !.addon_icon = drawn, !.addon_timer = FALSE]
                           /\ ev' = Event(nodir, 0, kd.addon_stale, <<>>)
                      ELSE \E picks \in sample(files, reveal_count(files)) :
                           \E drawn \in last_draws(Len(picks)) :
                           /\ kd' = KD_reveal_addons(
                                      [tick EXCEPT !.addon_icon = drawn, !.addon_timer = FALSE],
                                      picks)
                           /\ ev' = Event(kind, 0, kd.addon_stale, picks)
               ELSE \E shown \in icon_draws(all_killer_addons) :
                    /\ kd' = [tick EXCEPT !.addon_icon = shown]
                    /\ ev' = Event("anim_addons", 0, FALSE, shown)
  /\ UNCHANGED <<assets, fmt, view, pd, fd, fs, sd, clicks>>

\* KillerDisplay._animate_single_addon: one timeout of _single_addon_timer
KD_animate_single_addon ==
  /\ Live /\ kd.single_addon_timer
  /\ LET c     == kd.single_addon_counter + 1
         idx   == kd.single_addon_idx
         key   == KD_key(kd)
         files == killer_addon_files(key)
         k1    == [kd EXCEPT !.single_addon_counter = c]
         k2    == [k1 EXCEPT !.single_addon_timer = FALSE]
     IN
     IF ~killer_addon_isdir(key)
       THEN /\ kd' = k2
            /\ crashed' = FALSE
            /\ ev' = Event("abort_single_addon", idx, FALSE, <<>>)
     ELSE IF files = {}
       THEN /\ kd' = k1
            /\ crashed' = TRUE
            /\ ev' = Raised("raise_animate_single_addon")
     ELSE IF c > SPIN_STEPS
       THEN IF KD_reroll_addon_raises(k2, idx)
              THEN /\ \E fn \in files : kd' = [k2 EXCEPT !.addon_icon[idx] = <<key, fn>>]
                   /\ crashed' = TRUE
                   /\ ev' = Raised("raise_reroll_addon")
              ELSE \E fn \in KD_reroll_pool(k2, idx) :
                   /\ kd' = KD_reroll_addon(k2, idx, fn)
                   /\ crashed' = FALSE
                   /\ ev' = Event("reroll_addon", idx, FALSE, <<fn>>)
       ELSE \E fn \in files :
            /\ kd' = [k1 EXCEPT !.addon_icon[idx] = <<key, fn>>]
            /\ crashed' = FALSE
            /\ ev' = Event("anim_single_addon", idx, FALSE, << <<key, fn>> >>)
  /\ UNCHANGED <<assets, fmt, view, pd, fd, fs, sd, clicks>>

\* ------------------------------------------------------------ FullDisplay
FD_init ==
  [ phase                |-> 0,
    timer                |-> FALSE,
    single_perk_idx      |-> 0,
    single_perk_counter  |-> 0,
    perk_timer           |-> FALSE,
    single_addon_idx     |-> 0,
    single_addon_counter |-> 0,
    addon_timer_single   |-> FALSE ]

\* FullDisplay._start, the part on its own fields (it also calls kd._start_portrait)
FD_start(f) == [f EXCEPT !.phase = 1, !.timer = TRUE]

\* The perk timer of the run that FullDisplay._start supersedes is left as it is:
\* if it is running it now belongs to a superseded run.
FD_start_pd(p) == [PD_new_run(p) EXCEPT !.stale = p.timer]

\* FullDisplay._reroll_perk_full(idx)
FD_reroll_perk_full(f, idx) ==
  [f EXCEPT !.single_perk_idx = idx, !.single_perk_counter = 0, !.perk_timer = TRUE]

\* FullDisplay._reroll_addon_full(idx)
FD_reroll_addon_full(f, idx) ==
  [f EXCEPT !.single_addon_idx = idx, !.single_addon_counter = 0,
            !.addon_timer_single = TRUE]

\* the Spin Everything button of FullDisplay
FullSpinClick ==
  /\ CanClick /\ view = "FullDisplay"
  /\ fd' = FD_start(fd)
  /\ kd' = KD_start_portrait(kd)
  /\ pd' = FD_start_pd(pd)
  /\ ev' = Event("start", 0, FALSE, <<>>)
  /\ clicks' = clicks - 1
  /\ UNCHANGED <<assets, fmt, view, fs, sd, crashed>>

\* a perk icon of FullDisplay
FullPerkClick ==
  /\ CanClick /\ view = "FullDisplay"
  /\ \E idx \in PerkSlots : fd' = FD_reroll_perk_full(fd, idx)
  /\ ev' = NoEv
  /\ clicks' = clicks - 1
  /\ UNCHANGED <<assets, fmt, view, pd, kd, fs, sd, crashed>>

\* an add-on icon of FullDisplay
FullAddonClick ==
  /\ CanClick /\ view = "FullDisplay"
  /\ \E idx \in AddonSlots : fd' = FD_reroll_addon_full(fd, idx)
  /\ ev' = NoEv
  /\ clicks' = clicks - 1
  /\ UNCHANGED <<assets, fmt, view, pd, kd, fs, sd, crashed>>

\* FullDisplay._step: one timeout of fd._timer
FD_step ==
  /\ Live /\ fd.timer
  /\ IF fd.phase = 1 /\ kd.portrait_counter > SPIN_STEPS
       THEN /\ kd' = KD_start_addons(kd, "full")
            /\ fd' = [fd EXCEPT !.phase = 2]
            /\ pd' = pd
            /\ ev' = Event("step_start_addons", 0, FALSE, <<>>)
     ELSE IF fd.phase = 2 /\ kd.addon_counter > SPIN_STEPS
       THEN /\ pd' = PD_start_spin(pd)
            /\ fd' = [fd EXCEPT !.phase = 3]
            /\ kd' = kd
            /\ ev' = Event("step_start_perks", 0, FALSE, <<>>)
     ELSE IF fd.phase = 3 /\ pd.spin_counter > SPIN_STEPS
       THEN /\ fd' = [fd EXCEPT !.timer = FALSE]
            /\ UNCHANGED <<kd, pd>>
            /\ ev' = Event("step_stop", 0, FALSE, <<>>)
     ELSE /\ UNCHANGED <<fd, kd, pd>>
          /\ ev' = Event("step_wait", 0, FALSE, <<>>)
  /\ UNCHANGED <<assets, fmt, view, fs, sd, crashed, clicks>>

\* FullDisplay._animate_single_perk: one timeout of fd._perk_timer
FD_animate_single_perk ==
  /\ Live /\ fd.perk_timer
  /\ LET c   == fd.single_perk_counter + 1
         idx == fd.single_perk_idx IN
     IF perk_files = {}
       THEN /\ fd' = [fd EXCEPT !.single_perk_counter = c]
            /\ pd' = pd
            /\ crashed' = TRUE
            /\ ev' = Raised("raise_animate_single_perk")
     ELSE IF c > SPIN_STEPS
       THEN \E fname \in perk_files :
            /\ fd' = [fd EXCEPT !.single_perk_counter = c, !.perk_timer = FALSE]
            /\ pd' = PD_reroll_perk(pd, idx, fname)
            /\ crashed' = FALSE
            /\ ev' = Event("reroll_perk", idx, FALSE, <<fname>>)
       ELSE /\ fd' = [fd EXCEPT !.single_perk_counter = c]
            /\ pd' = pd
            /\ crashed' = FALSE
            /\ ev' = NoEv
  /\ UNCHANGED <<assets, fmt, view, kd, fs, sd, clicks>>

\* FullDisplay._animate_single_addon: one timeout of fd._addon_timer_single
FD_animate_single_addon ==
  /\ Live /\ fd.addon_timer_single
  /\ LET c     == fd.single_addon_counter + 1
         idx   == fd.single_addon_idx
         key   == KD_key(kd)
         files == killer_addon_files(key)
         f1    == [fd EXCEPT !.single_addon_counter = c]
         f2    == [f1 EXCEPT !.addon_timer_single = FALSE]
     IN
     IF ~killer_addon_isdir(key)
       THEN /\ fd' = f2
            /\ kd' = kd
            /\ crashed' = FALSE
            /\ ev' = Event("abort_single_addon", idx, FALSE, <<>>)
     ELSE IF files = {}
       THEN /\ fd' = f1
            /\ kd' = kd
            /\ crashed' = TRUE
            /\ ev' = Raised("raise_animate_single_addon")
     ELSE IF c > SPIN_STEPS
       THEN IF KD_reroll_addon_raises(kd, idx)
              THEN /\ fd' = f2
                   /\ \E fn \in files : kd' = [kd EXCEPT !.addon_icon[idx] = <<key, fn>>]
                   /\ crashed' = TRUE
                   /\ ev' = Raised("raise_reroll_addon")
              ELSE \E fn \in KD_reroll_pool(kd, idx) :
                   /\ fd' = f2
                   /\ kd' = KD_reroll_addon(kd, idx, fn)
                   /\ crashed' = FALSE
                   /\ ev' = Event("reroll_addon", idx, FALSE, <<fn>>)
       ELSE \E fn \in files :
            /\ fd' = f1
            /\ kd' = [kd EXCEPT !.addon_icon[idx] = <<key, fn>>]
            /\ crashed' = FALSE
            /\ ev' = Event("anim_single_addon", idx, FALSE, << <<key, fn>> >>)
  /\ UNCHANGED <<assets, fmt, view, pd, fs, sd, clicks>>

\* ---------------------------------------------------- FullSurvivorDisplay
\* FullSurvivorDisplay.__init__: survivors, items
survivors == { f \in SurvivorDirListing : is_png(f) }
items     == { f \in SurvivorItemListing : is_png(f) }

\* os.listdir(os.path.join(self.addons_root, stem)) raises FileNotFoundError
survivor_addon_missing(stem) == stem \notin SurvivorAddonDirs

\* [f for f in os.listdir(folder) if f.lower().endswith(".png")]
survivor_addon_files(stem) == { f \in SurvivorAddonListing(stem) : is_png(f) }

\* an animation tick of the add-on slots raises: the folder is missing, or
\* random.choice is given an empty list
survivor_addon_raises(stem) ==
  survivor_addon_missing(stem) \/ survivor_addon_files(stem) = {}

FS_init ==
  [ phase           |-> 0,
    cnt             |-> 0,
    timer           |-> FALSE,
    spin_type       |-> "None",
    spin_idx        |-> 0,
    spin_counter    |-> 0,
    slot_timer      |-> FALSE,
    picked_survivor |-> NoFile,
    picked_item     |-> NoFile,
    temp_item       |-> NoFile,
    portrait_txt    |-> EmptyText,
    item_txt        |-> EmptyText,
    item_pick       |-> NoFile,
    addon_txt       |-> [i \in AddonSlots |-> EmptyText],
    addon_pick      |-> [i \in AddonSlots |-> NoFile],
    fin             |-> [portrait |-> 0, item |-> 0, addons |-> 0],
    superseding     |-> "none",
    click_fin       |-> FALSE ]

\* the add-on labels are cleared (and the icons set to the placeholder)
FS_clear_addons(f) ==
  [f EXCEPT !.addon_txt  = [i \in AddonSlots |-> EmptyText],
            !.addon_pick = [i \in AddonSlots |-> NoFile]]

\* FullSurvivorDisplay._start entering the item phase at once
FS_start_at_item(f) ==
  [FS_clear_addons(f) EXCEPT !.phase = 2, !.cnt = 0, !.timer = TRUE,
                             !.fin = [portrait |-> 0, item |-> 0, addons |-> 0]]

\* FullSurvivorDisplay._start, the part on its own fields; fin counts the
\* finalizations of each phase in the run that starts here, and superseding
\* (set by the click) says that this start interrupted a run in progress
FS_start(f) ==
  [FS_clear_addons(f) EXCEPT !.phase = 1, !.cnt = 0, !.timer = TRUE,
                             !.fin = [portrait |-> 0, item |-> 0, addons |-> 0]]

\* the part of a full spin that is in progress: the perk spin handed over to
\* PerkDisplay, the sequencer's own phases, or nothing
FS_running(f, p) ==
  IF p.timer THEN "perks" ELSE IF f.timer THEN "sequence" ELSE "none"

\* FullSurvivorDisplay._start without self.pd._timer.stop(), as FullDisplay._start
FS_start_pd_keeps_timer(p) == [PD_new_run(p) EXCEPT !.stale = p.timer]

\* FullSurvivorDisplay._start: self.pd._timer.stop()
FS_start_pd(p) == [PD_new_run(p) EXCEPT !.timer = FALSE, !.stale = FALSE]

\* _step, phase 1 at cnt >= SPIN_STEPS
FS_final_portrait(f, choice) ==
  [f EXCEPT !.picked_survivor = choice,
            !.portrait_txt    = format_perk_name(choice),
            !.phase = 2, !.cnt = 0,
            !.fin.portrait = Bump(f.fin.portrait)]

\* _step, phase 2 at cnt >= SPIN_STEPS
FS_final_item(f, choice) ==
  [FS_clear_addons(f) EXCEPT !.temp_item = choice,
                             !.item_txt  = format_perk_name(choice),
                             !.item_pick = choice,
                             !.phase = 3, !.cnt = 0,
                             !.fin.item = Bump(f.fin.item)]

\* the folder _step (phase 3) and the item_sequence spin list: the stem of _temp_item
FS_temp_stem(f) == splitext_stem(f.temp_item)

\* _step, phase 3 at cnt >= SPIN_STEPS, with picks = random.sample(files, min(2, len(files)))
FS_final_addons(f, picks) ==
  [f EXCEPT !.addon_txt  = [i \in AddonSlots |->
                              IF i <= Len(picks) THEN format_perk_name(picks[i])
                              ELSE f.addon_txt[i]],
            !.addon_pick = [i \in AddonSlots |->
                              IF i <= Len(picks) THEN picks[i] ELSE f.addon_pick[i]],
            !.phase = 4, !.cnt = 0,
            !.fin.addons = Bump(f.fin.addons)]

\* FullSurvivorDisplay._start_survivor_spin
FS_start_survivor_spin(f) ==
  [f EXCEPT !.spin_type = "survivor", !.spin_counter = 0, !.slot_timer = TRUE]

\* FullSurvivorDisplay._start_item_spin
FS_start_item_spin(f) ==
  [FS_clear_addons(f) EXCEPT !.spin_type = "item_sequence", !.spin_counter = 0,
                             !.slot_timer = TRUE]

\* FullSurvivorDisplay._start_addon_spin(idx); click_fin records whether the
\* full spin of the current run had finalized the item when the slot was clicked
FS_start_addon_spin(f, idx) ==
  [f EXCEPT !.spin_type = "addon", !.spin_idx = idx, !.spin_counter = 0,
            !.slot_timer = TRUE, !.click_fin = (f.fin.item = 1)]

\* FullSurvivorDisplay._reroll_survivor, with pick = random.choice(self.survivors)
FS_reroll_survivor(f, pick) ==
  [f EXCEPT !.portrait_txt = format_perk_name(pick), !.picked_survivor = pick]

\* the folder _reroll_addon and the addon spin list: _picked_item
FS_addon_folder(f) == f.picked_item

\* FullSurvivorDisplay._reroll_addon(idx), with fn = random.choice(files)
FS_reroll_addon(f, idx, fn) ==
  [f EXCEPT !.addon_txt[idx] = format_perk_name(fn), !.addon_pick[idx] = fn]

\* FullSurvivorDisplay._reroll_item up to the cascade, with pick = self._temp_item
\* (never None here: the item_sequence spin has set it)
FS_reroll_item(f, pick) ==
  [f EXCEPT !.item_txt    = format_perk_name(pick),
            !.item_pick   = pick,
            !.picked_item = splitext_stem(pick)]

\* the Spin Everything button of FullSurvivorDisplay
SurvivorFullSpinClick ==
  /\ CanClick /\ view = "FullSurvivorDisplay"
  /\ fs' = [FS_start(fs) EXCEPT !.superseding = FS_running(fs, pd)]
  /\ pd' = FS_start_pd(pd)
  /\ ev' = Event("start", 0, FALSE, <<>>)
  /\ clicks' = clicks - 1
  /\ UNCHANGED <<assets, fmt, view, kd, fd, sd, crashed>>

\* the portrait icon of FullSurvivorDisplay
FS_PortraitClick ==
  /\ CanClick /\ view = "FullSurvivorDisplay"
  /\ fs' = FS_start_survivor_spin(fs)
  /\ ev' = NoEv
  /\ clicks' = clicks - 1
  /\ UNCHANGED <<assets, fmt, view, pd, kd, fd, sd, crashed>>

\* the item icon of FullSurvivorDisplay
FS_ItemClick ==
  /\ CanClick /\ view = "FullSurvivorDisplay"
  /\ fs' = FS_start_item_spin(fs)
  /\ ev' = Event("click_item", 0, FALSE, <<>>)
  /\ clicks' = clicks - 1
  /\ UNCHANGED <<assets, fmt, view, pd, kd, fd, sd, crashed>>

\* an add-on icon of FullSurvivorDisplay
FS_AddonClick ==
  /\ CanClick /\ view = "FullSurvivorDisplay"
  /\ \E idx \in AddonSlots : fs' = FS_start_addon_spin(fs, idx)
  /\ ev' = NoEv
  /\ clicks' = clicks - 1
  /\ UNCHANGED <<assets, fmt, view, pd, kd, fd, sd, crashed>>

\* FullSurvivorDisplay._step: one timeout of fs._timer
FS_step ==
  /\ Live /\ fs.timer
  /\ LET c  == fs.cnt + 1
         f1 == [fs EXCEPT !.cnt = c]
     IN
     CASE fs.phase = 1 ->
            IF survivors = {}
              THEN /\ fs' = f1 /\ pd' = pd /\ crashed' = TRUE
                   /\ ev' = Raised("raise_step_portrait")
              ELSE \E choice \in survivors :
                   /\ pd' = pd /\ crashed' = FALSE
                   /\ IF c >= SPIN_STEPS
                        THEN /\ fs' = FS_final_portrait(f1, choice)
                             /\ ev' = Event("fs_final_portrait", 0, FALSE, <<choice>>)
                        ELSE /\ fs' = f1
                             /\ ev' = NoEv
       [] fs.phase = 2 ->
            IF items = {}
              THEN /\ fs' = f1 /\ pd' = pd /\ crashed' = TRUE
                   /\ ev' = Raised("raise_step_item")
              ELSE \E choice \in items :
                   /\ pd' = pd /\ crashed' = FALSE
                   /\ IF c >= SPIN_STEPS
                        THEN /\ fs' = FS_final_item(f1, choice)
                             /\ ev' = Event("fs_final_item", 0, FALSE, <<choice>>)
                        ELSE /\ fs' = f1
                             /\ ev' = NoEv
       [] fs.phase = 3 ->
            LET files == survivor_addon_files(FS_temp_stem(fs)) IN
            IF survivor_addon_raises(FS_temp_stem(fs))
              THEN /\ fs' = f1 /\ pd' = pd /\ crashed' = TRUE
                   /\ ev' = Raised("raise_step_addons")
              ELSE /\ pd' = pd /\ crashed' = FALSE
                   /\ IF c >= SPIN_STEPS
                        THEN \E picks \in sample(files, reveal_count(files)) :
                             /\ fs' = FS_final_addons(f1, picks)
                             /\ ev' = Event("fs_final_addons", 0, FALSE, picks)
                        ELSE /\ fs' = f1
                             /\ \E shown \in icon_draws(files) :
                                  ev' = Event("fs_anim_addons", 0, FALSE,
                                              << <<FS_temp_stem(fs), shown[1]>>,
                                                 <<FS_temp_stem(fs), shown[2]>> >>)
       [] fs.phase = 4 ->
            /\ pd' = PD_start_spin(pd)
            /\ fs' = [f1 EXCEPT !.timer = FALSE]
            /\ crashed' = FALSE
            /\ ev' = Event("fs_start_perks", 0, FALSE, <<>>)
       [] OTHER ->
            /\ fs' = f1 /\ pd' = pd /\ crashed' = FALSE /\ ev' = NoEv
  /\ UNCHANGED <<assets, fmt, view, kd, fd, sd, clicks>>

\* FullSurvivorDisplay._animate_slot_spin: one timeout of fs._slot_timer
FS_animate_slot_spin ==
  /\ Live /\ fs.slot_timer
  /\ LET c    == fs.spin_counter + 1
         f1   == [fs EXCEPT !.spin_counter = c]
         f2   == [f1 EXCEPT !.slot_timer = FALSE]
         half == SPIN_STEPS
     IN
     CASE fs.spin_type = "survivor" ->
            IF survivors = {}
              THEN /\ fs' = f1 /\ crashed' = TRUE
                   /\ ev' = Raised("raise_spin_survivor")
              ELSE /\ crashed' = FALSE
                   /\ IF c >= SPIN_STEPS
                        THEN \E pick \in survivors :
                             /\ fs' = FS_reroll_survivor(f2, pick)
                             /\ ev' = Event("fs_reroll_survivor", 0, FALSE, <<pick>>)
                        ELSE /\ fs' = f1
                             /\ ev' = NoEv
       [] fs.spin_type = "item_sequence" ->
            IF c <= half
              THEN IF items = {}
                     THEN /\ fs' = f1 /\ crashed' = TRUE
                          /\ ev' = Raised("raise_spin_item")
                     ELSE \E choice \in items :
                          /\ crashed' = FALSE
                          /\ IF c = half
                               THEN /\ fs' = [f1 EXCEPT !.temp_item = choice,
                                                        !.item_txt  = format_perk_name(choice),
                                                        !.item_pick = choice]
                                    /\ ev' = Event("fs_item_picked", 0, FALSE, <<choice>>)
                               ELSE /\ fs' = f1
                                    /\ ev' = NoEv
            ELSE IF c <= 2 * half
              THEN IF survivor_addon_raises(FS_temp_stem(fs))
                     THEN /\ fs' = f1 /\ crashed' = TRUE
                          /\ ev' = Raised("raise_spin_item_addons")
                     ELSE IF c = 2 * half
                       THEN LET f3 == FS_reroll_item(
                                        [f2 EXCEPT !.picked_item = FS_temp_stem(f2)],
                                        f2.temp_item)
                                files == survivor_addon_files(FS_addon_folder(f3))
                            IN  \E fn1 \in files : \E fn2 \in files :
                                /\ fs' = FS_reroll_addon(FS_reroll_addon(f3, 1, fn1), 2, fn2)
                                /\ crashed' = FALSE
                                /\ ev' = Event("fs_reroll_item", 0, FALSE, <<fn1, fn2>>)
                       ELSE LET stem  == FS_temp_stem(fs)
                                files == survivor_addon_files(stem)
                            IN  /\ fs' = f1 /\ crashed' = FALSE
                                /\ \E shown \in icon_draws(files) :
                                     ev' = Event("fs_anim_addons", 0, FALSE,
                                                 << <<stem, shown[1]>>, <<stem, shown[2]>> >>)
            ELSE /\ fs' = f1 /\ crashed' = FALSE /\ ev' = NoEv
       [] fs.spin_type = "addon" ->
            IF fs.picked_item = NoFile
              THEN /\ fs' = f2 /\ crashed' = FALSE
                   /\ ev' = Event("fs_abort_addon", fs.spin_idx, FALSE, <<>>)
            ELSE IF survivor_addon_raises(FS_addon_folder(fs))
              THEN /\ fs' = f1 /\ crashed' = TRUE
                   /\ ev' = Raised("raise_spin_addon")
            ELSE IF c >= SPIN_STEPS
              THEN \E fn \in survivor_addon_files(FS_addon_folder(fs)) :
                   /\ fs' = FS_reroll_addon(f2, fs.spin_idx, fn)
                   /\ crashed' = FALSE
                   /\ ev' = Event("fs_reroll_addon", fs.spin_idx, FALSE, <<fn>>)
            ELSE /\ fs' = f1 /\ crashed' = FALSE
                 /\ \E fn \in survivor_addon_files(FS_addon_folder(fs)) :
                      ev' = Event("fs_anim_addon", fs.spin_idx, FALSE,
                                  << <<FS_addon_folder(fs), fn>> >>)
       [] OTHER ->
            /\ fs' = f1 /\ crashed' = FALSE /\ ev' = NoEv
  /\ UNCHANGED <<assets, fmt, view, pd, kd, fd, sd, clicks>>

\* -------------------------------------------------------- SurvivorDisplay
\* SurvivorDisplay.__init__: portraits (items as in FullSurvivorDisplay).
\* _picked_item and _addon_files are not assigned there: NoFile and <<>>
\* stand for the missing attribute.
portraits == { f \in SurvivorDirListing : is_png(f) }

SD_init ==
  [ phase         |-> 0,
    phase_cnt     |-> 0,
    timer         |-> FALSE,
    slot_type     |-> "None",
    slot_idx      |-> 0,
    slot_counter  |-> 0,
    slot_timer    |-> FALSE,
    picked_item   |-> NoFile,
    addon_files   |-> <<>>,
    portrait_pick |-> NoFile,
    item_txt      |-> EmptyText,
    item_pick     |-> NoFile,
    addon_txt     |-> [i \in AddonSlots |-> EmptyText],
    addon_pick    |-> [i \in AddonSlots |-> NoFile] ]

\* SurvivorDisplay._phase_portrait
SD_phase_portrait(d) ==
  [d EXCEPT !.phase = 1, !.phase_cnt = 0,
            !.item_txt   = EmptyText,
            !.item_pick  = NoFile,
            !.addon_txt  = [i \in AddonSlots |-> EmptyText],
            !.addon_pick = [i \in AddonSlots |-> NoFile],
            !.timer = TRUE]

\* _animate, phase 2 past SPIN_STEPS
SD_final_item(d, choice) ==
  [d EXCEPT !.item_txt    = format_perk_name(choice),
            !.item_pick   = choice,
            !.picked_item = splitext_stem(choice),
            !.phase = 3, !.phase_cnt = 0]

\* the number of picks _animate (phase 3) asks random.sample for
SD_sample_count == 2

\* _animate, phase 3 past SPIN_STEPS, with picks = random.sample(all_add, 2)
SD_sample_addons(d, picks) ==
  [d EXCEPT !.addon_files = picks, !.phase = 4, !.phase_cnt = 0]

\* _animate, phase 4: zip(self.addon_lbls, self.addon_names, self._addon_files)
SD_reveal_addons(d) ==
  [d EXCEPT !.addon_txt  = [i \in AddonSlots |->
                              IF i <= Len(d.addon_files)
                                THEN format_perk_name(d.addon_files[i])
                                ELSE d.addon_txt[i]],
            !.addon_pick = [i \in AddonSlots |->
                              IF i <= Len(d.addon_files) THEN d.addon_files[i]
                              ELSE d.addon_pick[i]],
            !.timer = FALSE]

\* SurvivorDisplay._start_slot(slot_type, idx)
SD_start_slot(d, slot_type, idx) ==
  [d EXCEPT !.slot_type = slot_type, !.slot_idx = idx, !.slot_counter = 0,
            !.slot_timer = TRUE]

\* SurvivorDisplay._reroll_item up to the cascade, with choice = random.choice(self.items)
SD_reroll_item(d, choice) ==
  [d EXCEPT !.item_txt    = format_perk_name(choice),
            !.item_pick   = choice,
            !.picked_item = splitext_stem(choice)]

\* SurvivorDisplay._reroll_addon(idx), with fn = random.choice(all_add)
SD_reroll_addon(d, idx, fn) ==
  [d EXCEPT !.addon_txt[idx] = format_perk_name(fn), !.addon_pick[idx] = fn]

\* reading self._picked_item raises AttributeError, os.listdir raises
\* FileNotFoundError, or random.choice is given an empty list
SD_addon_raises(d) ==
  d.picked_item = NoFile \/ survivor_addon_raises(d.picked_item)

\* the Spin button of SurvivorDisplay
SD_SpinClick ==
  /\ CanClick /\ view = "SurvivorDisplay"
  /\ sd' = SD_phase_portrait(sd)
  /\ ev' = Event("start", 0, FALSE, <<>>)
  /\ clicks' = clicks - 1
  /\ UNCHANGED <<assets, fmt, view, pd, kd, fd, fs, crashed>>

\* the portrait icon, the item icon or an add-on icon of SurvivorDisplay
SD_SlotClick ==
  /\ CanClick /\ view = "SurvivorDisplay"
  /\ \/ sd' = SD_start_slot(sd, "portrait", 0)
     \/ sd' = SD_start_slot(sd, "item", 0)
     \/ \E idx \in AddonSlots : sd' = SD_start_slot(sd, "addon", idx)
  /\ ev' = NoEv
  /\ clicks' = clicks - 1
  /\ UNCHANGED <<assets, fmt, view, pd, kd, fd, fs, crashed>>

\* SurvivorDisplay._animate: one timeout of sd.timer
SD_animate ==
  /\ Live /\ sd.timer
  /\ LET c  == sd.phase_cnt + 1
         d1 == [sd EXCEPT !.phase_cnt = c]
     IN
     CASE sd.phase = 1 ->
            IF portraits = {}
              THEN /\ sd' = d1 /\ crashed' = TRUE
                   /\ ev' = Raised("raise_animate_portrait")
              ELSE \E choice \in portraits :
                   /\ crashed' = FALSE
                   /\ IF c > SPIN_STEPS
                        THEN /\ sd' = [d1 EXCEPT !.portrait_pick = choice,
                                                 !.phase = 2, !.phase_cnt = 0]
                             /\ ev' = Event("sd_final_portrait", 0, FALSE, <<choice>>)
                        ELSE /\ sd' = d1
                             /\ ev' = NoEv
       [] sd.phase = 2 ->
            IF items = {}
              THEN /\ sd' = d1 /\ crashed' = TRUE
                   /\ ev' = Raised("raise_animate_item")
              ELSE \E choice \in items :
                   /\ crashed' = FALSE
                   /\ IF c > SPIN_STEPS
                        THEN /\ sd' = SD_final_item(d1, choice)
                             /\ ev' = Event("sd_final_item", 0, FALSE, <<choice>>)
                        ELSE /\ sd' = d1
                             /\ ev' = NoEv
       [] sd.phase = 3 ->
            LET all_add == survivor_addon_files(sd.picked_item) IN
            IF SD_addon_raises(sd)
              THEN /\ sd' = d1 /\ crashed' = TRUE
                   /\ ev' = Raised("raise_animate_addons")
            ELSE IF c > SPIN_STEPS
              THEN IF Cardinality(all_add) < SD_sample_count
                     THEN \* random.sample larger than the population: ValueError
                          /\ sd' = d1 /\ crashed' = TRUE
                          /\ ev' = Raised("raise_sample_addons")
                     ELSE \E picks \in sample(all_add, SD_sample_count) :
                          /\ sd' = SD_sample_addons(d1, picks)
                          /\ crashed' = FALSE
                          /\ ev' = Event("sd_sample_addons", 0, FALSE, picks)
            ELSE /\ sd' = d1 /\ crashed' = FALSE
                 /\ \E shown \in icon_draws(all_add) :
                      ev' = Event("sd_anim_addons", 0, FALSE,
                                  << <<sd.picked_item, shown[1]>>,
                                     <<sd.picked_item, shown[2]>> >>)
       [] sd.phase = 4 ->
            /\ sd' = SD_reveal_addons(d1)
            /\ crashed' = FALSE
            /\ ev' = Event("sd_reveal_addons", 0, FALSE, sd.addon_files)
       [] OTHER ->
            /\ sd' = d1 /\ crashed' = FALSE /\ ev' = NoEv
  /\ UNCHANGED <<assets, fmt, view, pd, kd, fd, fs, clicks>>

\* SurvivorDisplay._animate_slot: one timeout of sd._slot_timer
SD_animate_slot ==
  /\ Live /\ sd.slot_timer
  /\ LET c  == sd.slot_counter + 1
         d1 == [sd EXCEPT !.slot_counter = c]
         d2 == [d1 EXCEPT !.slot_timer = FALSE]
     IN
     CASE sd.slot_type = "portrait" ->
            IF portraits = {}
              THEN /\ sd' = d1 /\ crashed' = TRUE
                   /\ ev' = Raised("raise_slot_portrait")
              ELSE /\ crashed' = FALSE
                   /\ IF c > SPIN_STEPS
                        THEN \E choice \in portraits :
                             /\ sd' = [d2 EXCEPT !.portrait_pick = choice]
                             /\ ev' = Event("sd_reroll_survivor", 0, FALSE, <<choice>>)
                        ELSE /\ sd' = d1 /\ ev' = NoEv
       [] sd.slot_type = "item" ->
            IF items = {}
              THEN /\ sd' = d1 /\ crashed' = TRUE
                   /\ ev' = Raised("raise_slot_item")
            ELSE IF c > SPIN_STEPS
              THEN \E choice \in items :
                   LET d3    == SD_reroll_item(d2, choice)
                       files == survivor_addon_files(d3.picked_item)
                   IN  IF SD_addon_raises(d3)
                         THEN /\ sd' = d3 /\ crashed' = TRUE
                              /\ ev' = Raised("raise_reroll_item")
                         ELSE \E fn1 \in files : \E fn2 \in files :
                              /\ sd' = SD_reroll_addon(SD_reroll_addon(d3, 1, fn1), 2, fn2)
                              /\ crashed' = FALSE
                              /\ ev' = Event("sd_reroll_item", 0, FALSE, <<fn1, fn2>>)
            ELSE /\ sd' = d1 /\ crashed' = FALSE /\ ev' = NoEv
       [] OTHER ->   \* else: addon
            IF SD_addon_raises(sd)
              THEN /\ sd' = d1 /\ crashed' = TRUE
                   /\ ev' = Raised("raise_slot_addon")
            ELSE IF c > SPIN_STEPS /\ sd.slot_idx \in AddonSlots
              THEN \E fn \in survivor_addon_files(sd.picked_item) :
                   /\ sd' = SD_reroll_addon(d2, sd.slot_idx, fn)
                   /\ crashed' = FALSE
                   /\ ev' = Event("sd_reroll_addon", sd.slot_idx, FALSE, <<fn>>)
            ELSE /\ sd' = d1 /\ crashed' = FALSE
                 /\ \E fn \in survivor_addon_files(sd.picked_item) :
                      ev' = Event("sd_anim_addon", sd.slot_idx, FALSE,
                                  << <<sd.picked_item, fn>> >>)
  /\ UNCHANGED <<assets, fmt, view, pd, kd, fd, fs, clicks>>

\* ------------------------------------------------------------ specification

\* the application started on the asset tree a, showing display v
InitOn(a, v, n) ==
  /\ assets = a
  /\ fmt = NoCall
  /\ view = v
  /\ pd = PD_init
  /\ kd = KD_init
  /\ fd = FD_init
  /\ fs = FS_init
  /\ sd = SD_init
  /\ ev = NoEv
  /\ crashed = FALSE
  /\ clicks = n

InitWith(v, n) == InitOn("full", v, n)

\* the main window shows one display; the user makes at most MaxClicks clicks
Init == \E v \in Views : InitWith(v, MaxClicks)

NextPD ==
  \/ PerkSpinClick
  \/ PerkIconClick
  \/ PD_animate_spin
  \/ PD_animate_single

NextKD ==
  \/ KillerSpinClick
  \/ KillerPortraitClick
  \/ KillerAddonClick
  \/ KD_animate_portrait
  \/ KD_animate_single_portrait
  \/ KD_animate_addons
  \/ KD_animate_single_addon

NextFD ==
  \/ FullSpinClick
  \/ KillerSpinClick
  \/ FullPerkClick
  \/ FullAddonClick
  \/ FD_step
  \/ FD_animate_single_perk
  \/ FD_animate_single_addon
  \/ KD_animate_portrait
  \/ KD_animate_addons
  \/ PD_animate_spin

NextFS ==
  \/ SurvivorFullSpinClick
  \/ FS_PortraitClick
  \/ FS_ItemClick
  \/ FS_AddonClick
  \/ PerkIconClick
  \/ FS_step
  \/ FS_animate_slot_spin
  \/ PD_animate_spin
  \/ PD_animate_single

NextSD ==
  \/ SD_SpinClick
  \/ SD_SlotClick
  \/ SD_animate
  \/ SD_animate_slot

Next == NextPD \/ NextKD \/ NextFD \/ NextFS \/ NextSD

Spec   == Init /\ [][Next]_vars
SpecPD == InitWith("PerkDisplay", MaxClicks) /\ [][NextPD]_vars
SpecKD == InitWith("KillerDisplay", MaxClicks) /\ [][NextKD]_vars
SpecFD == InitWith("FullDisplay", MaxClicks) /\ [][NextFD]_vars
SpecFS == InitWith("FullSurvivorDisplay", MaxClicks) /\ [][NextFS]_vars
SpecSD == InitWith("SurvivorDisplay", MaxClicks) /\ [][NextSD]_vars

\* FullSurvivorDisplay with one more click
SpecFSDeep == InitWith("FullSurvivorDisplay", MaxDeepClicks) /\ [][NextFS]_vars

\* the four displays that finalize a multi-slot phase of their own; NextFS
\* holds every action of NextPD but the Spin button of PerkDisplay
SpecDisplays ==
  (\E v \in Views \ {"FullDisplay"} : InitWith(v, MaxClicks))
  /\ [][PerkSpinClick \/ NextKD \/ NextFS \/ NextSD]_vars

\* PerkDisplay on the trees with three perks and with none
SpecPDSparse ==
  (\E a \in {"few", "none"} : InitOn(a, "PerkDisplay", MaxClicks))
  /\ [][NextPD]_vars

\* the survivor displays on the tree where the item Map has no add-on folder
SpecSurvivorFew ==
  (\E v \in {"FullSurvivorDisplay", "SurvivorDisplay"} : InitOn("few", v, MaxClicks))
  /\ [][NextFS \/ NextSD]_vars

\* a caller is about to pass filename to format_perk_name
InitLabel(filename) ==
  /\ assets = "full" /\ view = "PerkDisplay"
  /\ fmt = [filename |-> filename, label |-> EmptyText, returned |-> FALSE]
  /\ pd = PD_init /\ kd = KD_init /\ fd = FD_init /\ fs = FS_init /\ sd = SD_init
  /\ ev = NoEv /\ crashed = FALSE /\ clicks = 0

\* utils.format_perk_name(filename) returns
FormatLabel ==
  /\ ~fmt.returned
  /\ fmt' = [fmt EXCEPT !.label = format_perk_name(fmt.filename), !.returned = TRUE]
  /\ UNCHANGED <<assets, view, pd, kd, fd, fs, sd, ev, crashed, clicks>>

\* every call of format_perk_name on a file name of LabelInputs
SpecLabel == (\E f \in LabelInputs : InitLabel(f)) /\ [][FormatLabel]_vars

\* FullSurvivorDisplay with the Qt event loop delivering the timeout of every
\* active timer
SpecFSLive ==
  /\ InitWith("FullSurvivorDisplay", MaxClicks)
  /\ [][NextFS]_vars
  /\ WF_vars(FS_step) /\ WF_vars(FS_animate_slot_spin)
  /\ WF_vars(PD_animate_spin) /\ WF_vars(PD_animate_single)

\* one display with the Qt event loop delivering the timeout of every active
\* timer of that display
\* One Spin Everything with no other click.  Every timer runs at SPIN_INTERVAL,
\* so timeouts are delivered in the order the timers were started or restarted:
\* _start starts kd.portrait_timer before fd._timer, and a timer that a handler
\* starts is due after the timer whose handler started it.
\* fd._timer is due next unless it fired last without starting a timer
FD_step_due == ev.kind \notin {"start", "step_wait", "step_stop"}

\* timeouts of the phase timers delivered at any time, in no order
FD_phase_due_any == TRUE

\* the timer of the running phase is due next
FD_phase_due == ev.kind \in {"start", "step_wait"}

FD_step_in_turn == FD_step_due /\ FD_step
KD_animate_portrait_in_turn == FD_phase_due /\ KD_animate_portrait
KD_animate_addons_in_turn == FD_phase_due /\ KD_animate_addons
PD_animate_spin_in_turn == FD_phase_due /\ PD_animate_spin

NextFDRun ==
  \/ FullSpinClick
  \/ FD_step_in_turn
  \/ KD_animate_portrait_in_turn
  \/ KD_animate_addons_in_turn
  \/ PD_animate_spin_in_turn

SpecFDRun ==
  /\ InitWith("FullDisplay", 1) /\ [][NextFDRun]_vars
  /\ WF_vars(FD_step_in_turn) /\ WF_vars(KD_animate_portrait_in_turn)
  /\ WF_vars(KD_animate_addons_in_turn) /\ WF_vars(PD_animate_spin_in_turn)

SpecPDLive ==
  /\ InitWith("PerkDisplay", MaxClicks) /\ [][NextPD]_vars
  /\ WF_vars(PD_animate_spin) /\ WF_vars(PD_animate_single)

SpecKDLive ==
  /\ InitWith("KillerDisplay", MaxClicks) /\ [][NextKD]_vars
  /\ WF_vars(KD_animate_portrait) /\ WF_vars(KD_animate_single_portrait)
  /\ WF_vars(KD_animate_addons) /\ WF_vars(KD_animate_single_addon)

SpecFDLive ==
  /\ InitWith("FullDisplay", MaxClicks) /\ [][NextFD]_vars
  /\ WF_vars(FD_step) /\ WF_vars(FD_animate_single_perk)
  /\ WF_vars(FD_animate_single_addon) /\ WF_vars(KD_animate_portrait)
  /\ WF_vars(KD_animate_addons) /\ WF_vars(PD_animate_spin)

SpecSDLive ==
  /\ InitWith("SurvivorDisplay", MaxClicks) /\ [][NextSD]_vars
  /\ WF_vars(SD_animate) /\ WF_vars(SD_animate_slot)

\* ------------------------------------------------------------------ claims
Distinct(seq) == \A i, j \in DOMAIN seq : i # j => seq[i] # seq[j]
Range(seq) == { seq[i] : i \in DOMAIN seq }

\* the add-on pool scoped to a killer file: the files of the folder its label names
KillerPool(file) == killer_addon_files(strip_spaces(format_perk_name(file)))
\* the add-on pool scoped to an item file
ItemPool(file) == survivor_addon_files(splitext_stem(file))

\* C1: whenever a reroll of a slot with dependents completes (the item reroll
\* of FullSurvivorDisplay and of SurvivorDisplay, the single portrait reroll of
\* KillerDisplay with the add-on spin it starts), every add-on slot that holds
\* a final pick holds a member of the pool of the parent's new pick.
C1_CascadeNewParent ==
  /\ ev.kind \in {"cascade_addons", "cascade_nodir"} /\ kd.name_pick # NoFile =>
        \A i \in AddonSlots :
          kd.addon_pick[i] # NoFile => kd.addon_pick[i] \in KillerPool(kd.name_pick)
  /\ ev.kind = "fs_reroll_item" =>
        \A i \in AddonSlots : fs.addon_pick[i] \in ItemPool(fs.item_pick)
  /\ ev.kind = "sd_reroll_item" =>
        \A i \in AddonSlots : sd.addon_pick[i] \in ItemPool(sd.item_pick)

\* the survivor displays' part of C1 alone
C1_SurvivorCascade ==
  /\ ev.kind = "fs_reroll_item" =>
        \A i \in AddonSlots : fs.addon_pick[i] \in ItemPool(fs.item_pick)
  /\ ev.kind = "sd_reroll_item" =>
        \A i \in AddonSlots : sd.addon_pick[i] \in ItemPool(sd.item_pick)

\* C2: in FullSurvivorDisplay every single add-on reroll that finalizes takes
\* its pick from the add-on pool of the item now finalized and labelled in the
\* item slot.
C2_AddonRerollCurrentItem ==
  ev.kind = "fs_reroll_addon" =>
    fs.addon_pick[ev.idx] \in ItemPool(fs.item_pick)

\* C3: in FullSurvivorDisplay a single add-on reroll is dropped (no-op) only
\* when the item slot is unset: a click on an add-on slot made after the full
\* spin has finalized the item is never dropped.
C3_AbortOnlyWhenItemUnset ==
  ev.kind = "fs_abort_addon" => ~(fs.click_fin /\ fs.item_pick # NoFile)

\* C4: in the killer displays no finalization of a superseded full spin
\* (_reveal_addons, _reveal_perks) fires after the new start.
C4_NoStaleFinalization ==
  ev.kind \in {"reveal_addons", "reveal_nodir", "reveal_perks"} => ~ev.stale


\* the clean route to the C2 violation: the item of the slot came from the full spin
C2_AfterFullSpin ==
  ev.kind = "fs_reroll_addon" /\ fs.fin.item = 1 /\ fs.item_pick = fs.temp_item /\ fs.fin.addons = 1 =>
    fs.addon_pick[ev.idx] \in ItemPool(fs.item_pick)

\* a full spin of FullSurvivorDisplay has run to its end and nothing is animating
FS_idle_after_spin == Live /\ fs.phase = 4 /\ ~fs.timer /\ ~pd.timer

\* C5: in FullSurvivorDisplay a Spin Everything click restarts the sequence
\* at phase 1, tick 0, with the perk spin timer stopped; no finalization of an
\* earlier run fires afterwards; each phase finalizes at most once per run,
\* and exactly once by the time the display is idle again.
C5_SupersedingFS ==
  /\ ev.kind = "start" =>
        /\ fs.phase = 1 /\ fs.cnt = 0 /\ fs.timer /\ ~pd.timer
        /\ fs.fin = [portrait |-> 0, item |-> 0, addons |-> 0]
        /\ pd.nstart = 0 /\ pd.nreveal = 0
  /\ ev.kind = "reveal_perks" => ~ev.stale
  /\ fs.fin.portrait <= 1 /\ fs.fin.item <= 1 /\ fs.fin.addons <= 1
  /\ pd.nstart <= 1 /\ pd.nreveal <= 1
  /\ FS_idle_after_spin =>
        /\ fs.fin = [portrait |-> 1, item |-> 1, addons |-> 1]
        /\ pd.nstart = 1 /\ pd.nreveal = 1

\* a Spin Everything click that interrupted the perk spin of a run, and the
\* new run at its end
C5_Witness ==
  /\ fs.superseding = "perks" /\ FS_idle_after_spin
  /\ fs.fin = [portrait |-> 1, item |-> 1, addons |-> 1] /\ pd.nreveal = 1

\* C6: in every full spin of FullSurvivorDisplay the item is not finalized
\* before the portrait, the add-ons not before the item, and the perk spin is
\* neither started nor finalized before the add-ons are finalized.
C6_PhaseOrderFS ==
  /\ fs.fin.item >= 1 => fs.fin.portrait >= 1
  /\ fs.fin.addons >= 1 => fs.fin.item >= 1
  /\ pd.nstart >= 1 => fs.fin.addons >= 1
  /\ pd.nreveal >= 1 => pd.nstart >= 1
  /\ pd.timer => fs.fin.addons >= 1

\* the perk spin finalized at the end of a full spin that went through every phase
C6_Witness ==
  /\ ev.kind = "reveal_perks" /\ view = "FullSurvivorDisplay"
  /\ fs.fin.portrait = 1 /\ fs.fin.item = 1 /\ fs.fin.addons = 1 /\ pd.nstart = 1

\* C7: in FullDisplay the add-ons are never finalized while the portrait is
\* animating and no killer name is shown, and the perk spin is neither started
\* nor finalized while the portrait or the add-ons are animating.
C7_PhaseOrderFD ==
  /\ ev.kind \in {"reveal_addons", "reveal_nodir"} =>
        ~(kd.portrait_timer /\ kd.name_label = EmptyText)
  /\ ev.kind \in {"step_start_perks", "reveal_perks"} =>
        ~kd.portrait_timer /\ ~kd.addon_timer

\* C8: a multi-slot phase that finalizes from a pool with at least as many
\* candidates as slots yields pairwise different picks: the four perks of
\* _reveal_perks, the two add-ons of KillerDisplay._reveal_addons, of
\* FullSurvivorDisplay._step phase 3 and of SurvivorDisplay._animate.
C8_DistinctPicks ==
  /\ ev.kind = "reveal_perks" /\ Cardinality(perk_files) >= 4 =>
        /\ Distinct(pd.pick) /\ pd.pick = ev.picks
        /\ \A i \in PerkSlots : pd.pick[i] \in perk_files
  /\ ev.kind \in {"reveal_addons", "cascade_addons"}
       /\ Cardinality(killer_addon_files(KD_key(kd))) >= 2 =>
        /\ Distinct(kd.addon_pick) /\ kd.addon_pick = ev.picks
  /\ ev.kind = "fs_final_addons"
       /\ Cardinality(ItemPool(fs.temp_item)) >= 2 =>
        /\ Distinct(fs.addon_pick) /\ fs.addon_pick = ev.picks
  /\ ev.kind = "sd_reveal_addons" =>
        /\ Distinct(sd.addon_pick) /\ sd.addon_pick = ev.picks

\* the add-on phase of a FullSurvivorDisplay full spin finalized two
\* different add-ons of a pool of two
C8_Witness ==
  /\ ev.kind = "fs_final_addons" /\ Cardinality(ItemPool(fs.temp_item)) >= 2
  /\ fs.addon_pick[1] # NoFile /\ fs.addon_pick[2] # NoFile
  /\ fs.addon_pick[1] # fs.addon_pick[2]

\* C9: after the cascade of an item reroll (FullSurvivorDisplay._reroll_item,
\* SurvivorDisplay._reroll_item) onto an item whose pool has at least two
\* add-ons, the two add-on slots hold different add-ons.
C9_CascadeDistinct ==
  /\ ev.kind = "fs_reroll_item" /\ Cardinality(ItemPool(fs.item_pick)) >= 2 =>
        fs.addon_pick[1] # fs.addon_pick[2]
  /\ ev.kind = "sd_reroll_item" /\ Cardinality(ItemPool(sd.item_pick)) >= 2 =>
        sd.addon_pick[1] # sd.addon_pick[2]

\* C10: when the add-on phase at the end of a full spin finalizes from a pool
\* of fewer than two add-ons (KillerDisplay, FullSurvivorDisplay,
\* SurvivorDisplay), nothing fails and the picks are exactly the pool's
\* candidates, each once.
C10_AddonClamp ==
  /\ ev.kind = "reveal_addons" /\ Cardinality(killer_addon_files(KD_key(kd))) < 2 =>
        /\ Live /\ Distinct(ev.picks)
        /\ Range(ev.picks) = killer_addon_files(KD_key(kd))
  /\ ev.kind = "fs_final_addons" /\ Cardinality(ItemPool(fs.temp_item)) < 2 =>
        /\ Live /\ Distinct(ev.picks)
        /\ Range(ev.picks) = ItemPool(fs.temp_item)
  /\ ev.kind # "raise_sample_addons"
  /\ ev.kind = "sd_reveal_addons" => Live

\* the killer and full-survivor part of C10 alone
C10_ClampKDFS ==
  /\ ev.kind = "reveal_addons" /\ Cardinality(killer_addon_files(KD_key(kd))) < 2 =>
        /\ Live /\ Distinct(ev.picks)
        /\ Range(ev.picks) = killer_addon_files(KD_key(kd))
  /\ ev.kind = "fs_final_addons" /\ Cardinality(ItemPool(fs.temp_item)) < 2 =>
        /\ Live /\ Distinct(ev.picks)
        /\ Range(ev.picks) = ItemPool(fs.temp_item)

\* C11: when _reveal_perks finalizes a full perk spin from a pool of fewer
\* than four perks, nothing fails and the finalized picks are exactly the
\* pool's perks, each at most once.
C11_PerkClamp ==
  /\ ev.kind # "raise_reveal_perks"
  /\ ev.kind = "reveal_perks" /\ Cardinality(perk_files) < 4 =>
        /\ Live /\ Distinct(ev.picks)
        /\ Range(ev.picks) = perk_files

\* C12: in KillerDisplay and FullDisplay, while the killer name is empty a
\* single add-on reroll (clicked then, or in flight when the name was cleared)
\* raises no error and finalizes no pick.
C12_NoopWithoutKiller ==
  kd.name_label = EmptyText =>
    ev.kind \notin {"raise_animate_single_addon", "raise_reroll_addon", "reroll_addon"}

\* C13: in FullSurvivorDisplay and SurvivorDisplay an add-on slot clicked
\* before any item was ever picked raises no error: the dropped reroll of
\* FullSurvivorDisplay leaves the process alive, and no timeout of
\* SurvivorDisplay's slot timer fails for want of a picked item.
C13_NoopWithoutItem ==
  /\ ev.kind = "fs_abort_addon" => Live
  /\ ev.kind = "raise_slot_addon" => sd.picked_item # NoFile

\* no timer of the display shown is active
PD_quiet == ~pd.timer /\ ~pd.single_timer
KD_quiet ==
  /\ ~kd.portrait_timer /\ ~kd.addon_timer
  /\ ~kd.single_addon_timer /\ ~kd.single_portrait_timer
FD_quiet == KD_quiet /\ ~pd.timer /\ ~fd.timer /\ ~fd.perk_timer /\ ~fd.addon_timer_single
FS_quiet == PD_quiet /\ ~fs.timer /\ ~fs.slot_timer
SD_quiet == ~sd.timer /\ ~sd.slot_timer

PerksSet == \A i \in PerkSlots : pd.pick[i] # NoFile /\ pd.txt[i] # EmptyText
KillerSet ==
  /\ kd.name_pick # NoFile /\ kd.name_label # EmptyText
  /\ \A i \in AddonSlots : kd.addon_pick[i] # NoFile /\ kd.addon_txt[i] # EmptyText

\* the parts of C14, display by display
C14_PD ==
  view = "PerkDisplay" /\ Live /\ pd.nstart >= 1 /\ PD_quiet
    /\ Cardinality(perk_files) >= 4 => PerksSet
C14_KD ==
  view = "KillerDisplay" /\ Live /\ kd.portrait_counter > 0 /\ KD_quiet
    /\ Cardinality(killer_addon_files(KD_key(kd))) >= 2 => KillerSet
C14_FD ==
  view = "FullDisplay" /\ Live /\ fd.phase >= 1 /\ FD_quiet
    /\ Cardinality(perk_files) >= 4
    /\ Cardinality(killer_addon_files(KD_key(kd))) >= 2 => KillerSet /\ PerksSet
C14_FS ==
  view = "FullSurvivorDisplay" /\ Live /\ fs.phase >= 1 /\ FS_quiet
    /\ Cardinality(perk_files) >= 4
    /\ Cardinality(ItemPool(fs.item_pick)) >= 2 =>
      /\ fs.portrait_txt # EmptyText /\ fs.item_txt # EmptyText
      /\ \A i \in AddonSlots : fs.addon_pick[i] # NoFile /\ fs.addon_txt[i] # EmptyText
      /\ PerksSet
C14_SD ==
  view = "SurvivorDisplay" /\ Live /\ sd.phase >= 1 /\ SD_quiet
    /\ Cardinality(ItemPool(sd.item_pick)) >= 2 =>
      /\ sd.portrait_pick # NoFile /\ sd.item_txt # EmptyText
      /\ \A i \in AddonSlots : sd.addon_pick[i] # NoFile /\ sd.addon_txt[i] # EmptyText

\* C14: when a display is idle again after a full spin and the pools of the
\* finalized picks hold at least as many candidates as slots, every slot of
\* the sequence holds a final pick and a non-empty label.
C14_Completeness == C14_PD /\ C14_KD /\ C14_FD /\ C14_FS /\ C14_SD

\* C15: an empty pool is not fatal: with no perk image to draw from, no
\* animation tick and no finalization of PerkDisplay raises, and the process
\* is never exited.
C15_EmptyPoolNonFatal ==
  perk_files = {} =>
    Live /\ ev.kind \notin {"raise_animate_spin", "raise_animate_single"}

\* C16: when the add-on folder of the finalized parent pick does not exist,
\* the add-on phase raises no error: the killer displays return from
\* _reveal_addons with the process alive, and no add-on tick of a survivor
\* display fails on a missing folder.
C16_UnreachableDependent ==
  /\ ev.kind \in {"reveal_nodir", "cascade_nodir"} => Live
  /\ view = "FullSurvivorDisplay" /\ ev.kind = "raise_step_addons" =>
        ~survivor_addon_missing(FS_temp_stem(fs))
  /\ view = "SurvivorDisplay" /\ ev.kind = "raise_animate_addons" =>
        ~survivor_addon_missing(sd.picked_item)

\* the killer displays' part of C16: after _reveal_addons found no folder,
\* FullDisplay still runs its perk phase to the end
C16_KillerNoDir ==
  /\ ev.kind \in {"reveal_nodir", "cascade_nodir"} => Live
  /\ view = "FullDisplay" /\ ev.kind = "step_stop" => Live /\ pd.nreveal >= 1

\* ---- C17
\* where character i of the stem lands in the label: one place further for
\* every upper-case letter in positions 2..i of the stem
LabelPos(stem, i) == i + Cardinality({ j \in 2..i : stem[j] \in UpperChars })

\* the stated rule, position by position
LabelRule(stem, label) ==
  /\ Len(label) = LabelPos(stem, Len(stem))
  /\ \A i \in 1..Len(stem) :
       /\ label[LabelPos(stem, i)] = (IF stem[i] = "_" THEN " " ELSE upper_char(stem[i]))
       /\ (i > 1 /\ stem[i] \in UpperChars) => label[LabelPos(stem, i) - 1] = " "

\* C17: format_perk_name maps "DeadHard.png" to "DEAD HARD", "dead_hard.png"
\* to "DEAD HARD" and "NOED.png" to "NOED"; in general the label is the file
\* stem with each underscore replaced by a space and a space inserted before
\* every upper-case letter that is not the first character, upper-cased.
C17_LabelDerivation ==
  fmt.returned =>
    /\ fmt.filename = <<"D","e","a","d","H","a","r","d",".","p","n","g">>
         => fmt.label = <<"D","E","A","D"," ","H","A","R","D">>
    /\ fmt.filename = <<"d","e","a","d","_","h","a","r","d",".","p","n","g">>
         => fmt.label = <<"D","E","A","D"," ","H","A","R","D">>
    /\ fmt.filename = <<"N","O","E","D",".","p","n","g">>
         => fmt.label = <<"N","O","E","D">>
    /\ LabelRule(SubSeq(fmt.filename, 1, Len(fmt.filename) - 4), fmt.label)

\* the rule alone and the two examples that follow it
C17_RuleOnly ==
  fmt.returned =>
    /\ fmt.filename \in { <<"D","e","a","d","H","a","r","d",".","p","n","g">>,
                          <<"d","e","a","d","_","h","a","r","d",".","p","n","g">> }
         => fmt.label = <<"D","E","A","D"," ","H","A","R","D">>
    /\ LabelRule(SubSeq(fmt.filename, 1, Len(fmt.filename) - 4), fmt.label)

\* ---- C18
\* the item slot was clicked and no click follows
C18_LastItemClick == ev.kind = "click_item" /\ clicks = 0

C18_AddonsCleared ==
  \A i \in AddonSlots : fs.addon_pick[i] = NoFile /\ fs.addon_txt[i] = EmptyText

\* the item_sequence spin started by the click has not finished
C18_SequenceRunning == fs.slot_timer /\ fs.spin_type = "item_sequence"

\* the cascade has just finalized: the item is the one the sequence picked and
\* both add-ons are labelled files of that item's folder
C18_CascadeFinal ==
  /\ ev.kind = "fs_reroll_item"
  /\ fs.item_pick = fs.temp_item
  /\ fs.item_txt = format_perk_name(fs.item_pick)
  /\ \A i \in AddonSlots :
       /\ fs.addon_pick[i] \in survivor_addon_files(splitext_stem(fs.item_pick))
       /\ fs.addon_txt[i] = format_perk_name(fs.addon_pick[i])

\* C18: an item click followed by no other click clears both add-on slots at
\* once; the add-on slots stay unfinalized while the item animates and is
\* finalized and while the add-ons animate; the run ends with the item and
\* both add-ons finalized from that item's folder, and it always gets there.
C18_ItemCascade ==
  [](C18_LastItemClick =>
       /\ C18_AddonsCleared
       /\ [](C18_SequenceRunning => C18_AddonsCleared)
       /\ <>C18_CascadeFinal)

\* the progress part alone
C18_CascadeProgress == C18_LastItemClick ~> C18_CascadeFinal

\* the same cascade when the item is clicked with no full spin in flight
C18_QuietCascade ==
  [](C18_LastItemClick /\ ~fs.timer /\ ~pd.timer =>
       /\ C18_AddonsCleared
       /\ [](C18_SequenceRunning => C18_AddonsCleared)
       /\ <>C18_CascadeFinal)

\* ---- C19
\* the final picks and labels of the perk slots other than slot skip
C19_PerkRest(p, skip) ==
  [i \in PerkSlots \ {skip} |-> <<p.pick[i], p.txt[i]>>]

\* the final picks and labels of the add-on slots other than slot skip
C19_AddonRest(d, skip) ==
  [i \in AddonSlots \ {skip} |-> <<d.addon_pick[i], d.addon_txt[i]>>]

C19_KillerParent(k) == <<k.name_pick, k.name_label>>
C19_SurvivorPortrait(f) == <<f.picked_survivor, f.portrait_txt>>
C19_ItemParent(d) == <<d.item_pick, d.item_txt>>

\* C19: the step that finalizes a single-slot reroll of a slot without
\* dependents (a perk slot, an add-on slot, the survivor portrait) sets the
\* pick and the label of that slot and leaves the pick and the label of the
\* sibling add-on, of the parent and of every other slot as they were, in
\* every display and for every slot index; the click that starts such a
\* reroll changes no pick and no label.
C19_Isolation ==
  [][ /\ ev'.kind = "reroll_perk" =>
           /\ pd'.pick[ev'.idx] = ev'.picks[1]
           /\ pd'.txt[ev'.idx] = format_perk_name(ev'.picks[1])
           /\ C19_PerkRest(pd', ev'.idx) = C19_PerkRest(pd, ev'.idx)
           /\ C19_KillerParent(kd') = C19_KillerParent(kd)
           /\ C19_AddonRest(kd', 0) = C19_AddonRest(kd, 0)
           /\ C19_SurvivorPortrait(fs') = C19_SurvivorPortrait(fs)
           /\ C19_ItemParent(fs') = C19_ItemParent(fs)
           /\ C19_AddonRest(fs', 0) = C19_AddonRest(fs, 0)
      /\ ev'.kind = "reroll_addon" =>
           /\ kd'.addon_pick[ev'.idx] = ev'.picks[1]
           /\ kd'.addon_txt[ev'.idx] = format_perk_name(ev'.picks[1])
           /\ C19_AddonRest(kd', ev'.idx) = C19_AddonRest(kd, ev'.idx)
           /\ C19_KillerParent(kd') = C19_KillerParent(kd)
           /\ C19_PerkRest(pd', 0) = C19_PerkRest(pd, 0)
      /\ ev'.kind = "fs_reroll_addon" =>
           /\ fs'.addon_pick[ev'.idx] = ev'.picks[1]
           /\ fs'.addon_txt[ev'.idx] = format_perk_name(ev'.picks[1])
           /\ C19_AddonRest(fs', ev'.idx) = C19_AddonRest(fs, ev'.idx)
           /\ C19_ItemParent(fs') = C19_ItemParent(fs)
           /\ C19_SurvivorPortrait(fs') = C19_SurvivorPortrait(fs)
           /\ C19_PerkRest(pd', 0) = C19_PerkRest(pd, 0)
      /\ ev'.kind = "fs_reroll_survivor" =>
           /\ fs'.picked_survivor = ev'.picks[1]
           /\ fs'.portrait_txt = format_perk_name(ev'.picks[1])
           /\ C19_ItemParent(fs') = C19_ItemParent(fs)
           /\ C19_AddonRest(fs', 0) = C19_AddonRest(fs, 0)
           /\ C19_PerkRest(pd', 0) = C19_PerkRest(pd, 0)
      /\ ev'.kind = "sd_reroll_addon" =>
           /\ sd'.addon_pick[ev'.idx] = ev'.picks[1]
           /\ sd'.addon_txt[ev'.idx] = format_perk_name(ev'.picks[1])
           /\ C19_AddonRest(sd', ev'.idx) = C19_AddonRest(sd, ev'.idx)
           /\ C19_ItemParent(sd') = C19_ItemParent(sd)
           /\ sd'.portrait_pick = sd.portrait_pick
      /\ ev'.kind = "sd_reroll_survivor" =>
           /\ sd'.portrait_pick = ev'.picks[1]
           /\ C19_ItemParent(sd') = C19_ItemParent(sd)
           /\ C19_AddonRest(sd', 0) = C19_AddonRest(sd, 0)
      /\ (\/ PerkIconClick \/ FullPerkClick \/ KillerAddonClick \/ FullAddonClick
          \/ FS_PortraitClick \/ FS_AddonClick \/ SD_SlotClick) =>
           /\ C19_PerkRest(pd', 0) = C19_PerkRest(pd, 0)
           /\ C19_KillerParent(kd') = C19_KillerParent(kd)
           /\ C19_AddonRest(kd', 0) = C19_AddonRest(kd, 0)
           /\ C19_SurvivorPortrait(fs') = C19_SurvivorPortrait(fs)
           /\ C19_ItemParent(fs') = C19_ItemParent(fs)
           /\ C19_AddonRest(fs', 0) = C19_AddonRest(fs, 0)
           /\ C19_ItemParent(sd') = C19_ItemParent(sd)
           /\ C19_AddonRest(sd', 0) = C19_AddonRest(sd, 0)
           /\ sd'.portrait_pick = sd.portrait_pick
    ]_vars

\* a killer add-on reroll has just finalized next to a finalized sibling
C19_Witness ==
  /\ ev.kind = "reroll_addon"
  /\ kd.name_label # EmptyText
  /\ kd.addon_pick[3 - ev.idx] # NoFile
  /\ kd.addon_pick[ev.idx] = ev.picks[1]

\* ---- C20
\* no add-on slot of KillerDisplay shows a finalized add-on outside the pool of
\* the killer the name label shows
C20_KD ==
  kd.name_pick # NoFile /\ kd.name_label # EmptyText =>
    \A i \in AddonSlots :
      kd.addon_pick[i] # NoFile /\ kd.addon_txt[i] # EmptyText =>
        kd.addon_pick[i] \in KillerPool(kd.name_pick)

\* the same in FullSurvivorDisplay, the item label being the parent
C20_FS ==
  fs.item_pick # NoFile /\ fs.item_txt # EmptyText =>
    \A i \in AddonSlots :
      fs.addon_pick[i] # NoFile /\ fs.addon_txt[i] # EmptyText =>
        fs.addon_pick[i] \in ItemPool(fs.item_pick)

\* the same in SurvivorDisplay
C20_SD ==
  sd.item_pick # NoFile /\ sd.item_txt # EmptyText =>
    \A i \in AddonSlots :
      sd.addon_pick[i] # NoFile /\ sd.addon_txt[i] # EmptyText =>
        sd.addon_pick[i] \in ItemPool(sd.item_pick)

\* C20: in every display, in every reachable state, when the parent slot
\* (the killer name, the item label) shows a finalized pick, every add-on slot
\* that shows a finalized, labelled add-on shows one drawn for that pick: the
\* add-ons of an earlier parent pick are cleared by the time the new parent
\* pick is finalized.
C20_DependentsCleared == C20_KD /\ C20_FS /\ C20_SD

\* ---- C21
\* C21: in every display a phase of a full spin or a single-slot reroll
\* finalizes only on a tick that takes its counter above SPIN_STEPS (tick
\* SPIN_STEPS + 1), never on or before tick SPIN_STEPS.
C21_StepThreshold ==
  [][ /\ ev'.kind = "reveal_perks" => pd.spin_counter + 1 > SPIN_STEPS
      /\ ev'.kind = "reroll_perk" =>
           IF view = "FullDisplay" THEN fd.single_perk_counter + 1 > SPIN_STEPS
           ELSE pd.single_counter + 1 > SPIN_STEPS
      /\ ev'.kind = "final_portrait" => kd.portrait_counter + 1 > SPIN_STEPS
      /\ ev'.kind = "final_single_portrait" =>
           kd.single_portrait_counter + 1 > SPIN_STEPS
      /\ ev'.kind \in {"reveal_addons", "cascade_addons"} =>
           kd.addon_counter + 1 > SPIN_STEPS
      /\ ev'.kind = "reroll_addon" =>
           IF view = "FullDisplay" THEN fd.single_addon_counter + 1 > SPIN_STEPS
           ELSE kd.single_addon_counter + 1 > SPIN_STEPS
      /\ ev'.kind \in {"fs_final_portrait", "fs_final_item", "fs_final_addons"} =>
           fs.cnt + 1 > SPIN_STEPS
      /\ ev'.kind \in {"fs_reroll_survivor", "fs_reroll_addon", "fs_item_picked"} =>
           fs.spin_counter + 1 > SPIN_STEPS
      /\ ev'.kind \in {"sd_final_portrait", "sd_final_item", "sd_sample_addons"} =>
           sd.phase_cnt + 1 > SPIN_STEPS
      /\ ev'.kind \in {"sd_reroll_survivor", "sd_reroll_item", "sd_reroll_addon"} =>
           sd.slot_counter + 1 > SPIN_STEPS
    ]_vars

\* the same without FullSurvivorDisplay
C21_ThresholdElsewhere ==
  [][ /\ ev'.kind = "reveal_perks" => pd.spin_counter + 1 > SPIN_STEPS
      /\ ev'.kind = "reroll_perk" =>
           IF view = "FullDisplay" THEN fd.single_perk_counter + 1 > SPIN_STEPS
           ELSE pd.single_counter + 1 > SPIN_STEPS
      /\ ev'.kind = "final_portrait" => kd.portrait_counter + 1 > SPIN_STEPS
      /\ ev'.kind = "final_single_portrait" =>
           kd.single_portrait_counter + 1 > SPIN_STEPS
      /\ ev'.kind \in {"reveal_addons", "cascade_addons"} =>
           kd.addon_counter + 1 > SPIN_STEPS
      /\ ev'.kind = "reroll_addon" =>
           IF view = "FullDisplay" THEN fd.single_addon_counter + 1 > SPIN_STEPS
           ELSE kd.single_addon_counter + 1 > SPIN_STEPS
      /\ ev'.kind \in {"sd_final_portrait", "sd_final_item", "sd_sample_addons"} =>
           sd.phase_cnt + 1 > SPIN_STEPS
      /\ ev'.kind \in {"sd_reroll_survivor", "sd_reroll_item", "sd_reroll_addon"} =>
           sd.slot_counter + 1 > SPIN_STEPS
    ]_vars

\* ---- C22
\* the picks <<folder, file>> an add-on animation tick has just shown
C22_Shown == { ev.picks[i] : i \in DOMAIN ev.picks }

\* KillerDisplay and FullDisplay: the add-on ticks of a portrait spin and of a
\* single add-on reroll show files of the folder of the killer named in the label
C22_Killer ==
  ev.kind \in {"anim_addons", "anim_single_addon"} =>
    \A p \in C22_Shown :
      /\ p[1] = strip_spaces(format_perk_name(kd.name_pick))
      /\ p[2] \in KillerPool(kd.name_pick)

\* FullSurvivorDisplay and SurvivorDisplay: the add-on ticks show files of the
\* folder of the item finalized in the item slot
C22_Survivor ==
  /\ ev.kind \in {"fs_anim_addons", "fs_anim_addon"} =>
       \A p \in C22_Shown :
         p[1] = splitext_stem(fs.item_pick) /\ p[2] \in ItemPool(fs.item_pick)
  /\ ev.kind \in {"sd_anim_addons", "sd_anim_addon"} =>
       \A p \in C22_Shown :
         p[1] = splitext_stem(sd.item_pick) /\ p[2] \in ItemPool(sd.item_pick)

\* C22: on every animation tick of an add-on slot, in a full spin and in a
\* single-slot reroll, the non-final pick shown is a member of the add-on pool
\* scoped to the current parent pick (the finalized killer, the finalized
\* item), never a member of another parent's pool.
C22_ScopedAnimation == C22_Killer /\ C22_Survivor

\* ---- C23
\* the Spin button of the display was clicked while no single-slot reroll was
\* in flight, and no click follows
C23_LastSpinClick ==
  /\ ev.kind \in {"start", "start_portrait"} /\ clicks = 0
  /\ ~pd.single_timer /\ ~kd.single_addon_timer /\ ~kd.single_portrait_timer
  /\ ~fd.perk_timer /\ ~fd.addon_timer_single /\ ~fs.slot_timer /\ ~sd.slot_timer

\* the program runs and no timer of any display is active
C23_Idle == Live /\ PD_quiet /\ FD_quiet /\ FS_quiet /\ SD_quiet

\* C23: with fair timer ticks and no further clicks, every full spin
\* eventually returns to idle: the program is running and the sequencer timer
\* and every timer it started are stopped.
C23_Termination == C23_LastSpinClick ~> C23_Idle

\* ---- C24
\* C24: whenever all four perk slots hold final picks and the perk pool has
\* at least four candidates, the four final perks are pairwise distinct,
\* after any sequence of full perk spins and single-perk rerolls.
C24_PerksDistinct ==
  /\ Cardinality(perk_files) >= 4
  /\ \A i \in PerkSlots : pd.pick[i] # NoFile
  => \A i, j \in PerkSlots : i # j => pd.pick[i] # pd.pick[j]

\* ---- C25
\* both add-on slots of KillerDisplay hold final picks of the pool of the
\* killer named in the label, and that pool has at least two files
C25_BothFinal ==
  /\ kd.name_pick # NoFile /\ kd.name_label # EmptyText
  /\ Cardinality(KillerPool(kd.name_pick)) >= 2
  /\ \A i \in AddonSlots :
       kd.addon_pick[i] \in KillerPool(kd.name_pick) /\ kd.addon_txt[i] # EmptyText

\* C25: in KillerDisplay (and FullDisplay, which reuses it), whenever both
\* add-on slots hold final picks for the current killer and that killer's
\* pool has at least two candidates, the two final add-ons are different,
\* after any sequence of portrait spins and single add-on rerolls.
C25_AddonsDiffer == C25_BothFinal => kd.addon_pick[1] # kd.addon_pick[2]

\* a single add-on reroll has just finalized next to the other slot's pick
C25_Witness == C25_BothFinal /\ ev.kind = "reroll_addon"

\* ---- C26
\* the item label names the item whose stem is in _picked_item (or neither is set)
C26_Consistent(f) ==
  IF f.item_txt = EmptyText
    THEN f.picked_item = NoFile
    ELSE f.picked_item = splitext_stem(f.item_pick)

\* a click on the portrait or on an add-on takes over the slot timer while an
\* item reroll is in flight on it
C26_Interrupt ==
  /\ fs.slot_timer /\ fs.spin_type = "item_sequence"
  /\ fs'.slot_timer /\ fs'.spin_type \in {"survivor", "addon"}
  /\ fs'.spin_counter = 0

\* C26: in FullSurvivorDisplay, when another single-slot reroll (portrait or
\* add-on) is clicked at any tick of an item reroll in flight on the shared
\* slot timer, the item label, _picked_item and the item shown stay mutually
\* consistent: all of the old item or all of the new one.
C26_AtomicItemReroll == [][C26_Interrupt => C26_Consistent(fs')]_vars

\* ---- C27
\* a reroll of perk slot i is in flight on PerkDisplay._single_timer, with
\* perk files to draw from
C27_Started(i) ==
  Live /\ perk_files # {} /\ pd.single_timer /\ pd.single_idx = i

\* _reroll_perk(i) has just finalized slot i
C27_Finalized(i) == ev.kind = "reroll_perk" /\ ev.idx = i

\* C27: every single-slot reroll that was started with a valid context
\* eventually finalizes its slot, even when another slot's reroll is clicked
\* before it finishes (here for PerkDisplay._single_timer, one of the shared
\* timers the statement names).
C27_RerollFinalizes == \A i \in PerkSlots : C27_Started(i) ~> C27_Finalized(i)

\* ---- C28
\* add-on slot i of KillerDisplay shows the icon of the file its label names
C28_ShowsLabelled(i) ==
  /\ kd.addon_icon[i] # Placeholder
  /\ kd.addon_icon[i][2] = kd.addon_pick[i]

\* C28: in every reachable state in which no timer is active, each slot with
\* a non-empty label shows the icon of exactly the pick named by that label;
\* an animated, non-final pick is never left on screen next to an older final
\* label (here for the add-on slots of KillerDisplay, alone or in FullDisplay).
C28_IdleConsistency ==
  (Live /\ KD_quiet /\ FD_quiet) =>
    \A i \in AddonSlots : kd.addon_txt[i] # EmptyText => C28_ShowsLabelled(i)

\* ---- C29
\* _reveal_addons has just run
C29_AddonsRevealed == ev.kind \in {"reveal_addons", "reveal_nodir"}

\* the run of Spin Everything is over: fd._timer has stopped itself
C29_Done == Live /\ FD_quiet /\ ev.kind = "step_stop"

\* _reveal_addons runs at most once
C29_AddonsAtMostOnce ==
  /\ [][C29_AddonsRevealed => ~C29_AddonsRevealed']_vars
  /\ [](C29_AddonsRevealed => [](~C29_AddonsRevealed => []~C29_AddonsRevealed))

\* the perk spin starts with the add-on timer run out and stopped
C29_AddonsBeforePerks ==
  [][pd'.nstart # pd.nstart =>
       kd.addon_counter > SPIN_STEPS /\ ~kd.addon_timer /\ pd.nreveal = 0]_vars

C30_AddonFilesPair ==
  /\ Len(kd.addon_files) = 2
  /\ ev.kind # "raise_reroll_addon"
====
